---------------------------- MODULE Spec2Model ----------------------------
(***************************************************************************)
(* Model of the time-stepping engine of euler-fluid-sim:                   *)
(*   src/src/simulation.rs         Simulation (driver, predictor, Poisson  *)
(*                                 solver, corrector)                      *)
(*   src/src/space_time_domain.rs  SpaceTimeDomain (boundary resolver,     *)
(*                                 derivative stencils, range sweep)       *)
(*                                                                         *)
(* Numbers.  Every f32 of the program is a fixed-point number here: the    *)
(* integer n stands for n / SCALE.  Addition and subtraction are exact;    *)
(* multiplication and division round to the nearest unit (f32 rounds to    *)
(* the nearest representable value).  Sums of squares are accumulated in   *)
(* units of 1/SCALE^2 and Sqrt takes them back to units of 1/SCALE.        *)
(* A Rust index i of velocity / delta_space / acceleration / a range is    *)
(* index i + 1 of the TLA+ tuple.  An Option is <<>> (None) or <<v>>.      *)
(***************************************************************************)
EXTENDS Integers, Sequences, FiniteSets, TLC

VARIABLES
    cells,                  \* space_domain: cells[x][y] is a Cell record
    params,                 \* space_size, delta_space, delta_time, acceleration, reynolds
    time,                   \* Simulation.time
    initial_pressure_norm,  \* Simulation.initial_pressure_norm : Option<f32>
    fluid_cell_count,       \* Simulation.fluid_cell_count : Option<u32>
    pressure_range,         \* [min, max] for coloring
    speed_range,
    psi_range,
    pc,                     \* position of iterate_one_timestep
    itr,                    \* sweeps started by the running Poisson loop (the loop counter)
    steps,                  \* calls of iterate_one_timestep that have returned
    phases,                 \* log: the phases the running (or last) call has finished
    preset,                 \* log: the cells the Simulation was constructed from
    solve,                  \* log: what the running (or last) Poisson solve saw and did
    probe                   \* log: the last direct call of a grid operation and its outcome

vars == <<probe, cells, params, time, initial_pressure_norm, fluid_cell_count,
          pressure_range, speed_range, psi_range, pc, itr, steps, phases,
          preset, solve>>

----------------------------------------------------------------------------
(* Bounds of the model *)

NX == 5
NY == 5
MaxSteps == 2

----------------------------------------------------------------------------
(* f32 as fixed point *)

SCALE == 10000

\* the f32 literal n / 1000
Milli(n) == (n * SCALE) \div 1000

Abs(a) == IF a < 0 THEN -a ELSE a

\* F(v), with v evaluated once and before F: one statement after another
Bind(v, F(_)) == CHOOSE r \in {F(e) : e \in {v}} : TRUE

\* n / d rounded to the nearest integer, halves away from zero (d # 0)
RoundDiv(n, d) ==
    LET dd == Abs(d)
        nn == IF d < 0 THEN -n ELSE n
    IN  IF nn >= 0 THEN (nn + dd \div 2) \div dd
                   ELSE -(((-nn) + dd \div 2) \div dd)

\* |a| * |b| / SCALE and |a| * SCALE / |b|, rounded, computed in parts so that no
\* intermediate product leaves the 32-bit integers of the model checker
MulAbs(a, b) ==
    (a \div SCALE) * (b \div SCALE) * SCALE
    + (a \div SCALE) * (b % SCALE)
    + (a % SCALE) * (b \div SCALE)
    + RoundDiv((a % SCALE) * (b % SCALE), SCALE)
DivAbs(a, b) == (a \div b) * SCALE + RoundDiv((a % b) * SCALE, b)

Sign(a, b) == IF (a < 0) = (b < 0) THEN 1 ELSE -1

\* a * b and a / b on f32
Mul(a, b) == Sign(a, b) * MulAbs(Abs(a), Abs(b))
Div(a, b) == Sign(a, b) * DivAbs(Abs(a), Abs(b))

\* f32::powi(2) of a fixed-point value, as a fixed-point value
Powi2(a) == Mul(a, a)

RECURSIVE SqrtIter(_, _)
SqrtIter(n, r) ==
    LET q == (r + n \div r) \div 2
    IN  IF q >= r THEN r ELSE SqrtIter(n, q)

\* floor of the square root of n >= 0
Sqrt(n) == IF n <= 0 THEN 0 ELSE SqrtIter(n, n)

\* the unit in which values up to m are squared and summed: finer for small
\* values, coarser for large ones (the relative precision of a float)
NormUnit(m) == IF m <= 8000 THEN 1 ELSE IF m <= 800000 THEN 100 ELSE 10000
SqIn(unit, a) == (Abs(a) \div unit) * (Abs(a) \div unit)
Max(a, b) == IF a >= b THEN a ELSE b

\* program constants, in units of 1/SCALE
OMEGA == Milli(1700)
POISSON_EPSILON == Milli(1)
GAMMA == Milli(900)
ITR_MAX == 100

\* usize arithmetic: x.wrapping_sub(1).  The machine word is kept at 16 bits,
\* far above every grid size of the model.
UsizeModulus == 65536
\* faulty variant of WrappingSub1: the word is as wide as the grid, so that
\* 0 - 1 is the last column
WrappingSub1Periodic(x) == (x + NX - 1) % NX

WrappingSub1(x) == (x + UsizeModulus - 1) % UsizeModulus

----------------------------------------------------------------------------
(* Cell and CellType *)

BoundaryKinds == {"NoSlipCell", "FreeSlipCell", "OutFlowCell", "InflowCell"}
CellTypes == {"FluidCell", "VoidCell"} \cup BoundaryKinds

IsFluid(t) == t = "FluidCell"
\* CellType::BoundaryConditionCell(_)
IsBoundary(t) == t \in BoundaryKinds

NewCell(t, vel, p, bcv) ==
    [cell_type |-> t, velocity |-> vel, f |-> 0, g |-> 0, pressure |-> p,
     rhs |-> 0, psi |-> 0, boundary_condition_velocity |-> bcv]

Xs == 0 .. NX - 1
Ys == 0 .. NY - 1

\* SpaceDomain::try_get_cell: Some(cell) inside the grid, None outside
InGrid(sz, x, y) == x >= 0 /\ x < sz[1] /\ y >= 0 /\ y < sz[2]
TryGetCell(c, sz, x, y) == IF InGrid(sz, x, y) THEN <<c[x][y]>> ELSE <<>>


SetU(c, x, y, val) == [c EXCEPT ![x][y].velocity[1] = val]
SetV(c, x, y, val) == [c EXCEPT ![x][y].velocity[2] = val]
\* faulty variant of SetVelocity: the prescribed velocity is overwritten as well
SetVelocityAndPrescribed(c, x, y, vel) ==
    [c EXCEPT ![x][y].velocity = vel, ![x][y].boundary_condition_velocity = vel]
SetVelocity(c, x, y, vel) == [c EXCEPT ![x][y].velocity = vel]
SetF(c, x, y, val) == [c EXCEPT ![x][y].f = val]
SetG(c, x, y, val) == [c EXCEPT ![x][y].g = val]
SetPressure(c, x, y, val) == [c EXCEPT ![x][y].pressure = val]

\* the type of the neighbour, or "none" outside the grid: (x > 0).then(..) etc.
TypeAt(c, sz, x, y) == IF InGrid(sz, x, y) THEN c[x][y].cell_type ELSE "none"

----------------------------------------------------------------------------
(* Boundary Condition Resolver: set_boundary_conditions.  Each rule below is *)
(* the velocity part of one branch of one boundary kind: (x,y) is the        *)
(* boundary cell and the named neighbour is a FluidCell.                     *)

NoSlipVelocity(c, x, y, dir) ==
    LET bcv == c[x][y].boundary_condition_velocity
    IN  CASE dir = "left" ->
               LET c1 == SetU(c, x - 1, y, 0)
               IN  SetV(c1, x, y, 2 * bcv[2] - c1[x - 1][y].velocity[2])
          [] dir = "right" ->
               SetVelocity(c, x, y, <<0, 2 * bcv[2] - c[x + 1][y].velocity[2]>>)
          [] dir = "bottom" ->
               LET c1 == SetV(c, x, y - 1, 0)
               IN  SetU(c1, x, y, 2 * bcv[1] - c1[x][y - 1].velocity[1])
          [] dir = "top" ->
               SetVelocity(c, x, y, <<2 * bcv[1] - c[x][y + 1].velocity[1], 0>>)

FreeSlipVelocity(c, x, y, dir) ==
    CASE dir = "left" ->
           LET c1 == SetU(c, x - 1, y, 0)
           IN  SetV(c1, x, y, c1[x - 1][y].velocity[2])
      [] dir = "right" ->
           SetVelocity(c, x, y, <<0, c[x + 1][y].velocity[2]>>)
      [] dir = "bottom" ->
           LET c1 == SetV(c, x, y - 1, 0)
           IN  SetU(c1, x, y, c1[x][y - 1].velocity[1])
      [] dir = "top" ->
           SetVelocity(c, x, y, <<c[x][y + 1].velocity[1], 0>>)

OutFlowVelocity(c, x, y, dir) ==
    CASE dir = "left" ->
           LET c1 == SetU(c, x - 1, y, c[x - 2][y].velocity[1])
           IN  SetV(c1, x, y, c1[x - 1][y].velocity[2])
      [] dir = "right" ->
           SetVelocity(c, x, y, <<c[x + 1][y].velocity[1], c[x + 1][y].velocity[2]>>)
      [] dir = "bottom" ->
           LET c1 == SetU(c, x, y, c[x][y - 1].velocity[1])
           IN  SetV(c1, x, y - 1, c1[x][y - 2].velocity[2])
      [] dir = "top" ->
           SetVelocity(c, x, y, <<c[x][y + 1].velocity[1], c[x][y + 1].velocity[2]>>)

\* faulty variant of InflowVelocity: the cell is first given its prescribed
\* boundary velocity, as a wall cell would be
InflowVelocityPrescribed(c, x, y, dir) ==
    LET c1 == SetVelocity(c, x, y, c[x][y].boundary_condition_velocity)
    IN  CASE dir = "left" -> SetU(c1, x - 1, y, c1[x][y].velocity[1])
          [] dir = "right" -> c1
          [] dir = "bottom" -> SetV(c1, x, y - 1, c1[x][y].velocity[2])
          [] dir = "top" -> c1

InflowVelocity(c, x, y, dir) ==
    CASE dir = "left" -> SetU(c, x - 1, y, c[x][y].velocity[1])
      [] dir = "right" -> c
      [] dir = "bottom" -> SetV(c, x, y - 1, c[x][y].velocity[2])
      [] dir = "top" -> c

BranchVelocity(c, x, y, dir) ==
    LET kind == c[x][y].cell_type
    IN  CASE kind = "NoSlipCell" -> NoSlipVelocity(c, x, y, dir)
          [] kind = "FreeSlipCell" -> FreeSlipVelocity(c, x, y, dir)
          [] kind = "OutFlowCell" -> OutFlowVelocity(c, x, y, dir)
          [] kind = "InflowCell" -> InflowVelocity(c, x, y, dir)

\* the pressure and predictor part of a branch, the same for the four kinds:
\* the fluid neighbour's pressure is added to the boundary cell's, and the f
\* (g) on the shared face is set to the velocity now stored on that face
BranchPressureFg(c, x, y, dir) ==
    CASE dir = "left" ->
           LET c1 == SetPressure(c, x, y, c[x][y].pressure + c[x - 1][y].pressure)
           IN  SetF(c1, x - 1, y, c1[x - 1][y].velocity[1])
      [] dir = "right" ->
           LET c1 == SetPressure(c, x, y, c[x][y].pressure + c[x + 1][y].pressure)
           IN  SetF(c1, x, y, c1[x][y].velocity[1])
      [] dir = "bottom" ->
           LET c1 == SetPressure(c, x, y, c[x][y].pressure + c[x][y - 1].pressure)
           IN  SetG(c1, x, y - 1, c1[x][y - 1].velocity[2])
      [] dir = "top" ->
           LET c1 == SetPressure(c, x, y, c[x][y].pressure + c[x][y + 1].pressure)
           IN  SetG(c1, x, y, c1[x][y].velocity[2])

NeighbourOf(x, y, dir) ==
    CASE dir = "left" -> <<x - 1, y>>
      [] dir = "right" -> <<x + 1, y>>
      [] dir = "bottom" -> <<x, y - 1>>
      [] dir = "top" -> <<x, y + 1>>

\* one branch: taken when the neighbour exists and is a FluidCell
Branch(c, sz, x, y, dir, vel, pfg) ==
    LET n == NeighbourOf(x, y, dir)
    IN  IF IsFluid(TypeAt(c, sz, n[1], n[2]))
        THEN LET c1 == IF vel THEN BranchVelocity(c, x, y, dir) ELSE c
             IN  IF pfg THEN BranchPressureFg(c1, x, y, dir) ELSE c1
        ELSE c

\* neighboring_fluid_count once the four branches have run
NeighboringFluidCount(c, sz, x, y) ==
    Cardinality({dir \in {"left", "right", "bottom", "top"} :
        LET n == NeighbourOf(x, y, dir) IN IsFluid(TypeAt(c, sz, n[1], n[2]))})

\* the body of the loops for one cell (x,y): vel selects the velocity
\* assignments, pfg the pressure and f/g assignments of the source
ResolveCell(c, sz, x, y, vel, pfg) ==
    IF ~IsBoundary(c[x][y].cell_type) THEN c
    ELSE Bind(IF pfg THEN SetPressure(c, x, y, 0) ELSE c, LAMBDA c0 :
         Bind(Branch(c0, sz, x, y, "left", vel, pfg), LAMBDA cl :
         Bind(Branch(cl, sz, x, y, "right", vel, pfg), LAMBDA cr :
         Bind(Branch(cr, sz, x, y, "bottom", vel, pfg), LAMBDA cb :
         Bind(Branch(cb, sz, x, y, "top", vel, pfg), LAMBDA ct :
         Bind(NeighboringFluidCount(ct, sz, x, y), LAMBDA count :
            IF pfg /\ count # 0
            THEN SetPressure(ct, x, y, Div(ct[x][y].pressure, count * SCALE))
            ELSE ct))))))

\* the OutFlow branch towards `dir` indexes a cell outside the grid: its
\* velocity assignments read space_domain[x - 2][y] (left) or
\* space_domain[x][y - 2] (bottom), two cells away from the boundary cell
OutFlowReadsOutside(c, sz, x, y, dir) ==
    /\ c[x][y].cell_type = "OutFlowCell"
    /\ \/ dir = "left" /\ IsFluid(TypeAt(c, sz, x - 1, y)) /\ ~InGrid(sz, x - 2, y)
       \/ dir = "bottom" /\ IsFluid(TypeAt(c, sz, x, y - 1)) /\ ~InGrid(sz, x, y - 2)

\* the visit of cell (x,y) aborts
ResolveCellAborts(c, sz, x, y, vel) ==
    /\ vel
    /\ IsBoundary(c[x][y].cell_type)
    /\ \E dir \in {"left", "bottom"} : OutFlowReadsOutside(c, sz, x, y, dir)

\* the grid an aborting visit leaves: the left branch aborts in its first
\* statement, the bottom branch after the assignment to the cell's velocity[0]
ResolveCellAborted(c, sz, x, y, vel, pfg) ==
    Bind(IF pfg THEN SetPressure(c, x, y, 0) ELSE c, LAMBDA c0 :
        IF OutFlowReadsOutside(c0, sz, x, y, "left") THEN c0
        ELSE Bind(Branch(c0, sz, x, y, "left", vel, pfg), LAMBDA cl :
             Bind(Branch(cl, sz, x, y, "right", vel, pfg), LAMBDA cr :
                SetU(cr, x, y, cr[x][y - 1].velocity[1]))))

\* the loops over the grid from raster index k on; they end at the first abort
RECURSIVE BoundaryRun(_, _, _, _, _)
BoundaryRun(c, sz, k, vel, pfg) ==
    IF k >= sz[1] * sz[2] THEN [cells |-> c, aborted |-> FALSE]
    ELSE IF ResolveCellAborts(c, sz, k \div sz[2], k % sz[2], vel)
    THEN [cells |-> ResolveCellAborted(c, sz, k \div sz[2], k % sz[2], vel, pfg),
          aborted |-> TRUE]
    ELSE Bind(ResolveCell(c, sz, k \div sz[2], k % sz[2], vel, pfg),
              LAMBDA next : BoundaryRun(next, sz, k + 1, vel, pfg))

\* SpaceTimeDomain::set_boundary_conditions, as written
SetBoundaryConditions(c, sz) == BoundaryRun(c, sz, 0, TRUE, TRUE).cells

\* SpaceDomain::update_boundary_velocities: the velocity assignments
UpdateBoundaryVelocities(c, sz) == BoundaryRun(c, sz, 0, TRUE, FALSE).cells

\* SpaceDomain::update_boundary_pressures_and_fg: the pressure and f/g assignments
UpdateBoundaryPressuresAndFg(c, sz) == BoundaryRun(c, sz, 0, FALSE, TRUE).cells

----------------------------------------------------------------------------
(* Derivative stencils, invoked on a FluidCell (x,y); ds is delta_space *)

Quarter(a) == Div(a, 4 * SCALE)

d2udx2(c, ds, x, y) ==
    LET ui == c[x][y].velocity[1]
        uip1 == c[x + 1][y].velocity[1]
        uim1 == c[x - 1][y].velocity[1]
    IN  Div(uip1 - 2 * ui + uim1, Powi2(ds[1]))

d2udy2(c, ds, x, y) ==
    LET uj == c[x][y].velocity[1]
        ujp1 == c[x][y + 1].velocity[1]
        ujm1 == c[x][y - 1].velocity[1]
    IN  Div(ujp1 - 2 * uj + ujm1, Powi2(ds[2]))

d2vdx2(c, ds, x, y) ==
    LET vi == c[x][y].velocity[2]
        vip1 == c[x + 1][y].velocity[2]
        vim1 == c[x - 1][y].velocity[2]
    IN  Div(vip1 - 2 * vi + vim1, Powi2(ds[1]))

d2vdy2(c, ds, x, y) ==
    LET vj == c[x][y].velocity[2]
        vjp1 == c[x][y + 1].velocity[2]
        vjm1 == c[x][y - 1].velocity[2]
    IN  Div(vjp1 - 2 * vj + vjm1, Powi2(ds[2]))

du2dx(c, ds, x, y) ==
    LET ui == c[x][y].velocity[1]
        uip1 == c[x + 1][y].velocity[1]
        uim1 == c[x - 1][y].velocity[1]
    IN  Div(Quarter(Powi2(ui + uip1) - Powi2(uim1 + ui)), ds[1])
        + Div(Quarter(Mul(GAMMA, Mul(Abs(ui + uip1), ui - uip1)
                                 - Mul(Abs(uim1 + ui), uim1 - ui))), ds[1])

dv2dy(c, ds, x, y) ==
    LET vj == c[x][y].velocity[2]
        vjp1 == c[x][y + 1].velocity[2]
        vjm1 == c[x][y - 1].velocity[2]
    IN  Div(Quarter(Powi2(vj + vjp1) - Powi2(vjm1 + vj)), ds[2])
        + Div(Quarter(Mul(GAMMA, Mul(Abs(vj + vjp1), vj - vjp1)
                                 - Mul(Abs(vjm1 + vj), vjm1 - vj))), ds[2])

duvdx(c, ds, x, y) ==
    LET uij == c[x][y].velocity[1]
        vij == c[x][y].velocity[2]
        vip1 == c[x + 1][y].velocity[2]
        vim1 == c[x - 1][y].velocity[2]
        uim1 == c[x - 1][y].velocity[1]
        ujp1 == c[x][y + 1].velocity[1]
        uim1jp1 == c[x - 1][y + 1].velocity[1]
    IN  Div(Quarter(Mul(uij + ujp1, vij + vip1) - Mul(uim1 + uim1jp1, vim1 + vij)), ds[1])
        + Div(Quarter(Mul(GAMMA, Mul(Abs(uij + ujp1), vij - vip1)
                                 - Mul(Abs(uim1 + uim1jp1), vim1 - vij))), ds[1])

duvdy(c, ds, x, y) ==
    LET uij == c[x][y].velocity[1]
        vij == c[x][y].velocity[2]
        ujp1 == c[x][y + 1].velocity[1]
        ujm1 == c[x][y - 1].velocity[1]
        vjm1 == c[x][y - 1].velocity[2]
        vip1 == c[x + 1][y].velocity[2]
        vip1jm1 == c[x + 1][y - 1].velocity[2]
    IN  Div(Quarter(Mul(vij + vip1, uij + ujp1) - Mul(vjm1 + vip1jm1, ujm1 + uij)), ds[2])
        + Div(Quarter(Mul(GAMMA, Mul(Abs(vij + vip1), uij - ujp1)
                                 - Mul(Abs(vjm1 + vip1jm1), ujm1 - uij))), ds[2])

StencilNames ==
    {"d2udx2", "d2udy2", "d2vdx2", "d2vdy2", "du2dx", "dv2dy", "duvdx", "duvdy"}

\* faulty variant of StencilReads: the backward reads taken two cells away
StencilReadsWide(name, x, y) ==
    CASE name \in {"d2udx2", "d2vdx2", "du2dx"} -> {<<x + 1, y>>, <<x - 2, y>>}
      [] name \in {"d2udy2", "d2vdy2", "dv2dy"} -> {<<x, y + 1>>, <<x, y - 2>>}
      [] name = "duvdx" -> {<<x + 1, y>>, <<x - 2, y>>, <<x, y + 1>>, <<x - 2, y + 1>>}
      [] name = "duvdy" -> {<<x, y + 1>>, <<x, y - 2>>, <<x + 1, y>>, <<x + 1, y - 2>>}

\* the cells a stencil indexes besides (x,y)
StencilReads(name, x, y) ==
    CASE name \in {"d2udx2", "d2vdx2", "du2dx"} -> {<<x + 1, y>>, <<x - 1, y>>}
      [] name \in {"d2udy2", "d2vdy2", "dv2dy"} -> {<<x, y + 1>>, <<x, y - 1>>}
      [] name = "duvdx" -> {<<x + 1, y>>, <<x - 1, y>>, <<x, y + 1>>, <<x - 1, y + 1>>}
      [] name = "duvdy" -> {<<x, y + 1>>, <<x, y - 1>>, <<x + 1, y>>, <<x + 1, y - 1>>}

StencilValue(name, c, ds, x, y) ==
    CASE name = "d2udx2" -> d2udx2(c, ds, x, y)
      [] name = "d2udy2" -> d2udy2(c, ds, x, y)
      [] name = "d2vdx2" -> d2vdx2(c, ds, x, y)
      [] name = "d2vdy2" -> d2vdy2(c, ds, x, y)
      [] name = "du2dx" -> du2dx(c, ds, x, y)
      [] name = "dv2dy" -> dv2dy(c, ds, x, y)
      [] name = "duvdx" -> duvdx(c, ds, x, y)
      [] name = "duvdy" -> duvdy(c, ds, x, y)

\* faulty variant of StencilOnFluid: the cell type is not looked at
StencilOnAnyCell(c, x, y) == TRUE

\* `match self.space_domain[x][y].cell_type { CellType::FluidCell => ..,
\*  _ => panic!("derivative on non fluid cell") }`
StencilOnFluid(c, x, y) == IsFluid(c[x][y].cell_type)

\* the stencil aborts: on a cell that is no FluidCell, or on an index that
\* leaves the grid (x - 1 at x = 0 overflows or, wrapped, is out of bounds)
StencilPanics(name, c, sz, x, y) ==
    \/ ~StencilOnFluid(c, x, y)
    \/ \E r \in StencilReads(name, x, y) : ~InGrid(sz, r[1], r[2])

\* the outcome of one stencil call: <<>> when it aborts, <<value>> otherwise
Stencil(name, c, sz, ds, x, y) ==
    IF StencilPanics(name, c, sz, x, y) THEN <<>> ELSE <<StencilValue(name, c, ds, x, y)>>

----------------------------------------------------------------------------
(* Momentum predictor: Simulation::update_fg.  pr is the parameter record. *)

\* the stencils PredictF and PredictG call
FStencils == {"d2udx2", "d2udy2", "du2dx", "duvdy"}
GStencils == {"d2vdx2", "d2vdy2", "duvdx", "dv2dy"}

\* one of the stencil calls of a predictor expression aborts
PredictAborts(names, c, pr, x, y) ==
    \E name \in names : StencilPanics(name, c, pr.space_size, x, y)

PredictF(c, pr, x, y) ==
    c[x][y].velocity[1]
    + Mul(pr.delta_time,
          Div(d2udx2(c, pr.delta_space, x, y) + d2udy2(c, pr.delta_space, x, y),
              pr.reynolds)
          - du2dx(c, pr.delta_space, x, y)
          - duvdy(c, pr.delta_space, x, y)
          + pr.acceleration[1])

\* faulty variant of PredictG: a body force that ignores `acceleration`
PredictGFixedGravity(c, pr, x, y) ==
    c[x][y].velocity[2]
    + Mul(pr.delta_time,
          Div(d2vdx2(c, pr.delta_space, x, y) + d2vdy2(c, pr.delta_space, x, y),
              pr.reynolds)
          - duvdx(c, pr.delta_space, x, y)
          - dv2dy(c, pr.delta_space, x, y)
          - Milli(9810))

PredictG(c, pr, x, y) ==
    c[x][y].velocity[2]
    + Mul(pr.delta_time,
          Div(d2vdx2(c, pr.delta_space, x, y) + d2vdy2(c, pr.delta_space, x, y),
              pr.reynolds)
          - duvdx(c, pr.delta_space, x, y)
          - dv2dy(c, pr.delta_space, x, y)
          + pr.acceleration[2])

\* faulty variant of ForwardIsFluid: the forward neighbour merely exists
ForwardExists(c, sz, x, y) == InGrid(sz, x, y)

\* the forward neighbour exists and is a FluidCell: try_get_cell(..).map(cell_type)
ForwardIsFluid(c, sz, x, y) == IsFluid(TypeAt(c, sz, x, y))

FgCell(c, pr, x, y) ==
    IF ~IsFluid(c[x][y].cell_type) THEN c
    ELSE Bind(IF ForwardIsFluid(c, pr.space_size, x + 1, y)
              THEN SetF(c, x, y, PredictF(c, pr, x, y)) ELSE c, LAMBDA c1 :
            IF ForwardIsFluid(c1, pr.space_size, x, y + 1)
            THEN SetG(c1, x, y, PredictG(c1, pr, x, y)) ELSE c1)

\* the visit of cell (x,y) aborts in the expression of f or in that of g
FgCellAborts(c, pr, x, y) ==
    /\ IsFluid(c[x][y].cell_type)
    /\ \/ ForwardIsFluid(c, pr.space_size, x + 1, y) /\ PredictAborts(FStencils, c, pr, x, y)
       \/ ForwardIsFluid(c, pr.space_size, x, y + 1) /\ PredictAborts(GStencils, c, pr, x, y)

\* the grid an aborting visit leaves: f is assigned when only g's expression aborts
FgCellAborted(c, pr, x, y) ==
    IF ForwardIsFluid(c, pr.space_size, x + 1, y)
    THEN IF PredictAborts(FStencils, c, pr, x, y) THEN c
         ELSE SetF(c, x, y, PredictF(c, pr, x, y))
    ELSE c

\* the loop over the grid from raster index k on; it ends at the first abort
RECURSIVE FgRun(_, _, _)
FgRun(c, pr, k) ==
    IF k >= pr.space_size[1] * pr.space_size[2] THEN [cells |-> c, aborted |-> FALSE]
    ELSE IF FgCellAborts(c, pr, k \div pr.space_size[2], k % pr.space_size[2])
    THEN [cells |-> FgCellAborted(c, pr, k \div pr.space_size[2], k % pr.space_size[2]),
          aborted |-> TRUE]
    ELSE Bind(FgCell(c, pr, k \div pr.space_size[2], k % pr.space_size[2]),
              LAMBDA next : FgRun(next, pr, k + 1))

UpdateFg(c, pr) == FgRun(c, pr, 0).cells

----------------------------------------------------------------------------
(* RHS assembly: Simulation::update_rhs *)

\* faulty variant of RhsOf: the backward differences taken forward
RhsOfForward(c, pr, x, y) ==
    Div(Div(c[x + 1][y].f - c[x][y].f, pr.delta_space[1])
        + Div(c[x][y + 1].g - c[x][y].g, pr.delta_space[2]),
        pr.delta_time)

RhsOf(c, pr, x, y) ==
    Div(Div(c[x][y].f - c[x - 1][y].f, pr.delta_space[1])
        + Div(c[x][y].g - c[x][y - 1].g, pr.delta_space[2]),
        pr.delta_time)

RhsCell(c, pr, x, y) ==
    IF IsFluid(c[x][y].cell_type)
    THEN [c EXCEPT ![x][y].rhs = RhsOf(c, pr, x, y)]
    ELSE c

\* get_cell(x - 1, y) or get_cell(x, y - 1) leaves the grid: the subtraction
\* overflows or, wrapped, the index is out of bounds
RhsCellAborts(c, pr, x, y) ==
    /\ IsFluid(c[x][y].cell_type)
    /\ ~(InGrid(pr.space_size, x - 1, y) /\ InGrid(pr.space_size, x, y - 1))

\* the loop over the grid from raster index k on; it ends at the first abort,
\* which comes before the assignment to rhs
RECURSIVE RhsRun(_, _, _)
RhsRun(c, pr, k) ==
    IF k >= pr.space_size[1] * pr.space_size[2] THEN [cells |-> c, aborted |-> FALSE]
    ELSE IF RhsCellAborts(c, pr, k \div pr.space_size[2], k % pr.space_size[2])
    THEN [cells |-> c, aborted |-> TRUE]
    ELSE Bind(RhsCell(c, pr, k \div pr.space_size[2], k % pr.space_size[2]),
              LAMBDA next : RhsRun(next, pr, k + 1))

UpdateRhs(c, pr) == RhsRun(c, pr, 0).cells

----------------------------------------------------------------------------
(* Pressure-Poisson solver: Simulation::solve_poisson_pressure_equation *)

\* 0.0 / 0.0, the norm of a grid without FluidCells: every comparison with it is false
NaN == -1
Less(a, b) == a # NaN /\ b # NaN /\ a < b

\* sqrt(sum / count) of a sum of squares taken in `unit`
Norm(sumsq, count, unit) == IF count = 0 THEN NaN ELSE Sqrt(sumsq \div count) * unit

RECURSIVE CountFluid(_, _, _)
CountFluid(c, sz, k) ==
    IF k >= sz[1] * sz[2] THEN 0
    ELSE (IF IsFluid(c[k \div sz[2]][k % sz[2]].cell_type) THEN 1 ELSE 0)
         + CountFluid(c, sz, k + 1)

RECURSIVE MaxPressure(_, _, _)
MaxPressure(c, sz, k) ==
    IF k >= sz[1] * sz[2] THEN 0
    ELSE LET cell == c[k \div sz[2]][k % sz[2]]
         IN  Max(IF IsFluid(cell.cell_type) THEN Abs(cell.pressure) ELSE 0,
                 MaxPressure(c, sz, k + 1))

RECURSIVE SumPressureSq(_, _, _, _)
SumPressureSq(c, sz, k, unit) ==
    IF k >= sz[1] * sz[2] THEN 0
    ELSE LET cell == c[k \div sz[2]][k % sz[2]]
         IN  (IF IsFluid(cell.cell_type) THEN SqIn(unit, cell.pressure) ELSE 0)
             + SumPressureSq(c, sz, k + 1, unit)

\* get_initial_pressure_norm: <<norm, count>> computed from the grid
ComputePressureNorm(c, sz) ==
    LET count == CountFluid(c, sz, 0)
        unit == NormUnit(MaxPressure(c, sz, 0))
    IN  <<Norm(SumPressureSq(c, sz, 0, unit), count, unit), count>>

\* faulty variant of GetInitialPressureNorm: the cache is never consulted
GetInitialPressureNormUncached(c, sz, cachedNorm, cachedCount) ==
    ComputePressureNorm(c, sz)

\* get_initial_pressure_norm: the cached pair when there is one
GetInitialPressureNorm(c, sz, cachedNorm, cachedCount) ==
    IF cachedNorm # <<>> THEN <<cachedNorm[1], cachedCount[1]>>
    ELSE ComputePressureNorm(c, sz)

\* discrete Laplacian of the pressure minus rhs at a FluidCell
Residual(c, ds, x, y) ==
    Div(c[x + 1][y].pressure - 2 * c[x][y].pressure + c[x - 1][y].pressure, Powi2(ds[1]))
    + Div(c[x][y + 1].pressure - 2 * c[x][y].pressure + c[x][y - 1].pressure, Powi2(ds[2]))
    - c[x][y].rhs

\* the residuals of the FluidCells in raster order, 0 for the other cells
Residuals(c, pr) ==
    [k \in 1 .. pr.space_size[1] * pr.space_size[2] |->
        LET x == (k - 1) \div pr.space_size[2]
            y == (k - 1) % pr.space_size[2]
        IN  IF IsFluid(c[x][y].cell_type) THEN Residual(c, pr.delta_space, x, y) ELSE 0]

RECURSIVE MaxOf(_, _)
MaxOf(rs, i) == IF i > Len(rs) THEN 0 ELSE Max(Abs(rs[i]), MaxOf(rs, i + 1))

RECURSIVE SumSq(_, _, _)
SumSq(rs, i, unit) == IF i > Len(rs) THEN 0 ELSE SqIn(unit, rs[i]) + SumSq(rs, i + 1, unit)

ResidualNorm(c, pr, count) ==
    Bind(Residuals(c, pr), LAMBDA rs :
    Bind(NormUnit(MaxOf(rs, 1)), LAMBDA unit :
        Norm(SumSq(rs, 1, unit), count, unit)))

\* the residual of a FluidCell indexes a cell outside the grid
ResidualAborts(c, pr) ==
    \E x \in 0 .. pr.space_size[1] - 1, y \in 0 .. pr.space_size[2] - 1 :
        /\ IsFluid(c[x][y].cell_type)
        /\ \E n \in {<<x + 1, y>>, <<x - 1, y>>, <<x, y + 1>>, <<x, y - 1>>} :
              ~InGrid(pr.space_size, n[1], n[2])

\* faulty variant of RelativeBound: the norm is added to the tolerance
RelativeBoundAdded(norm) == IF norm = NaN THEN NaN ELSE norm + POISSON_EPSILON

\* initial_pressure_norm * POISSON_EPSILON
RelativeBound(norm) == IF norm = NaN THEN NaN ELSE Mul(norm, POISSON_EPSILON)

\* faulty variant of StopSweeping: the relative test is left out
StopSweepingAbsoluteOnly(residual_norm, norm) ==
    Less(residual_norm, POISSON_EPSILON)

\* the break condition of the loop
StopSweeping(residual_norm, norm) ==
    Less(residual_norm, POISSON_EPSILON) \/ Less(residual_norm, RelativeBound(norm))

\* Simulation::update_pressures_for_boundary_cells
NeighboringCells(x, y) ==
    <<<<WrappingSub1(x), y>>, <<x + 1, y>>, <<x, WrappingSub1(y)>>, <<x, y + 1>>>>

RECURSIVE SumFluidPressure(_, _, _, _)
SumFluidPressure(c, sz, ns, i) ==
    IF i > Len(ns) THEN <<0, 0>>
    ELSE LET cell == TryGetCell(c, sz, ns[i][1], ns[i][2])
             rest == SumFluidPressure(c, sz, ns, i + 1)
         IN  IF cell # <<>> /\ IsFluid(cell[1].cell_type)
             THEN <<cell[1].pressure + rest[1], 1 + rest[2]>>
             ELSE rest

\* faulty variant of BoundaryPressure: the sum divided by the four neighbours
BoundaryPressureOverFour(c, sz, x, y) ==
    LET acc == SumFluidPressure(c, sz, NeighboringCells(x, y), 1)
    IN  IF acc[2] # 0 THEN Div(acc[1], 4 * SCALE) ELSE acc[1]

BoundaryPressure(c, sz, x, y) ==
    LET acc == SumFluidPressure(c, sz, NeighboringCells(x, y), 1)
    IN  IF acc[2] # 0 THEN Div(acc[1], acc[2] * SCALE) ELSE acc[1]

\* faulty variant of BoundaryPressureCell: VoidCells are refreshed as well
BoundaryPressureCellOrVoid(c, sz, x, y) ==
    IF ~IsFluid(c[x][y].cell_type)
    THEN SetPressure(c, x, y, BoundaryPressure(c, sz, x, y))
    ELSE c

BoundaryPressureCell(c, sz, x, y) ==
    IF IsBoundary(c[x][y].cell_type)
    THEN SetPressure(c, x, y, BoundaryPressure(c, sz, x, y))
    ELSE c

RECURSIVE BoundaryPressurePass(_, _, _)
BoundaryPressurePass(c, sz, k) ==
    IF k >= sz[1] * sz[2] THEN c
    ELSE Bind(BoundaryPressureCell(c, sz, k \div sz[2], k % sz[2]),
              LAMBDA next : BoundaryPressurePass(next, sz, k + 1))

UpdatePressuresForBoundaryCells(c, sz) == BoundaryPressurePass(c, sz, 0)

\* the new pressure of FluidCell (x,y) in a sweep
SorValue(c, ds, x, y) ==
    Mul(SCALE - OMEGA, c[x][y].pressure)
    + Div(Mul(OMEGA,
              Div(c[x + 1][y].pressure + c[x - 1][y].pressure, Powi2(ds[1]))
              + Div(c[x][y + 1].pressure + c[x][y - 1].pressure, Powi2(ds[2]))
              - c[x][y].rhs),
          Div(2 * SCALE, Powi2(ds[1])) + Div(2 * SCALE, Powi2(ds[2])))

SorCell(c, ds, x, y) ==
    IF IsFluid(c[x][y].cell_type)
    THEN SetPressure(c, x, y, SorValue(c, ds, x, y))
    ELSE c

\* faulty variant of SorPass: the cells visited in descending raster order
RECURSIVE SorPassDescending(_, _, _)
SorPassDescending(c, pr, k) ==
    IF k >= pr.space_size[1] * pr.space_size[2] THEN c
    ELSE Bind(SorCell(c, pr.delta_space,
                      (pr.space_size[1] * pr.space_size[2] - 1 - k) \div pr.space_size[2],
                      (pr.space_size[1] * pr.space_size[2] - 1 - k) % pr.space_size[2]),
              LAMBDA next : SorPassDescending(next, pr, k + 1))

RECURSIVE SorPass(_, _, _)
SorPass(c, pr, k) ==
    IF k >= pr.space_size[1] * pr.space_size[2] THEN c
    ELSE Bind(SorCell(c, pr.delta_space, k \div pr.space_size[2], k % pr.space_size[2]),
              LAMBDA next : SorPass(next, pr, k + 1))

----------------------------------------------------------------------------
(* Velocity corrector: Simulation::update_velocity *)

\* faulty variant of ForwardNotBoundary: the forward neighbour merely exists
ForwardInGrid(c, sz, x, y) == InGrid(sz, x, y)

\* Some(t) with t not a BoundaryConditionCell
ForwardNotBoundary(c, sz, x, y) == InGrid(sz, x, y) /\ ~IsBoundary(c[x][y].cell_type)

\* faulty variant of CorrectU: the correction applied to the velocity itself
CorrectUInPlace(c, pr, x, y) ==
    c[x][y].velocity[1]
    - Div(Mul(pr.delta_time, c[x + 1][y].pressure - c[x][y].pressure),
          pr.delta_space[1])

CorrectU(c, pr, x, y) ==
    c[x][y].f - Div(Mul(pr.delta_time, c[x + 1][y].pressure - c[x][y].pressure),
                    pr.delta_space[1])

\* faulty variant of CorrectV: g taken from the stream function, -dpsi/dx
CorrectVFromPsi(c, pr, x, y) ==
    Div(c[x - 1][y].psi - c[x][y].psi, pr.delta_space[1])
    - Div(Mul(pr.delta_time, c[x][y + 1].pressure - c[x][y].pressure),
          pr.delta_space[2])

CorrectV(c, pr, x, y) ==
    c[x][y].g - Div(Mul(pr.delta_time, c[x][y + 1].pressure - c[x][y].pressure),
                    pr.delta_space[2])

VelocityCell(c, pr, x, y) ==
    IF ~IsFluid(c[x][y].cell_type) THEN c
    ELSE Bind(IF ForwardNotBoundary(c, pr.space_size, x + 1, y)
              THEN SetU(c, x, y, CorrectU(c, pr, x, y)) ELSE c, LAMBDA c1 :
            IF ForwardNotBoundary(c1, pr.space_size, x, y + 1)
            THEN SetV(c1, x, y, CorrectV(c1, pr, x, y)) ELSE c1)

RECURSIVE VelocityPass(_, _, _)
VelocityPass(c, pr, k) ==
    IF k >= pr.space_size[1] * pr.space_size[2] THEN c
    ELSE Bind(VelocityCell(c, pr, k \div pr.space_size[2], k % pr.space_size[2]),
              LAMBDA next : VelocityPass(next, pr, k + 1))

UpdateVelocity(c, pr) == VelocityPass(c, pr, 0)

----------------------------------------------------------------------------
(* Stream function and the ranges for coloring *)

\* psi is kept for FluidCells and for the BoundaryConditionCells to the left of
\* or below a FluidCell
HasPsi(c, sz, x, y) ==
    \/ IsFluid(c[x][y].cell_type)
    \/ /\ IsBoundary(c[x][y].cell_type)
       /\ \/ IsFluid(TypeAt(c, sz, x + 1, y))
          \/ IsFluid(TypeAt(c, sz, x, y + 1))

\* psi at the upper right corner of (x,y): psi one cell below plus u * dy
PsiCell(c, pr, x, y) ==
    IF HasPsi(c, pr.space_size, x, y)
    THEN [c EXCEPT ![x][y].psi =
            (IF y > 0 THEN c[x][y - 1].psi ELSE 0)
            + Mul(c[x][y].velocity[1], pr.delta_space[2])]
    ELSE c

RECURSIVE PsiPass(_, _, _)
PsiPass(c, pr, k) ==
    IF k >= pr.space_size[1] * pr.space_size[2] THEN c
    ELSE Bind(PsiCell(c, pr, k \div pr.space_size[2], k % pr.space_size[2]),
              LAMBDA next : PsiPass(next, pr, k + 1))

UpdatePsi(c, pr) == PsiPass(c, pr, 0)

RECURSIVE PsiRangePass(_, _, _, _)
PsiRangePass(c, sz, k, acc) ==
    IF k >= sz[1] * sz[2] THEN acc
    ELSE LET x == k \div sz[2]
             y == k % sz[2]
             v == c[x][y].psi
         IN  IF HasPsi(c, sz, x, y)
             THEN Bind([range |-> <<IF ~acc.initialized \/ v < acc.range[1] THEN v ELSE acc.range[1],
                                    IF ~acc.initialized \/ v > acc.range[2] THEN v ELSE acc.range[2]>>,
                        initialized |-> TRUE],
                       LAMBDA next : PsiRangePass(c, sz, k + 1, next))
             ELSE PsiRangePass(c, sz, k + 1, acc)

UpdatePsiRange(c, sz, old) ==
    PsiRangePass(c, sz, 0, [range |-> old, initialized |-> FALSE]).range

\* speed of a cell: sqrt(u^2 + v^2)
Speed(cell) ==
    LET unit == NormUnit(Max(Abs(cell.velocity[1]), Abs(cell.velocity[2])))
    IN  Sqrt(SqIn(unit, cell.velocity[1]) + SqIn(unit, cell.velocity[2])) * unit

\* faulty variant of RangeCell: `initialized` taken as already set, so the
\* ranges of the previous step are only ever widened
RangeCellWidening(acc, cell) ==
    LET pressure == cell.pressure
        speed == Speed(cell)
    IN  [pressure_range |->
            <<IF pressure < acc.pressure_range[1] THEN pressure ELSE acc.pressure_range[1],
              IF pressure > acc.pressure_range[2] THEN pressure ELSE acc.pressure_range[2]>>,
         speed_range |->
            <<IF speed < acc.speed_range[1] THEN speed ELSE acc.speed_range[1],
              IF speed > acc.speed_range[2] THEN speed ELSE acc.speed_range[2]>>,
         initialized |-> TRUE]

\* one FluidCell of update_pressure_and_speed_range
RangeCell(acc, cell) ==
    LET pressure == cell.pressure
        speed == Speed(cell)
        first == ~acc.initialized
    IN  [pressure_range |->
            <<IF first \/ pressure < acc.pressure_range[1] THEN pressure ELSE acc.pressure_range[1],
              IF first \/ pressure > acc.pressure_range[2] THEN pressure ELSE acc.pressure_range[2]>>,
         speed_range |->
            <<IF first \/ speed < acc.speed_range[1] THEN speed ELSE acc.speed_range[1],
              IF first \/ speed > acc.speed_range[2] THEN speed ELSE acc.speed_range[2]>>,
         initialized |-> TRUE]

RECURSIVE RangePass(_, _, _, _)
RangePass(c, sz, k, acc) ==
    IF k >= sz[1] * sz[2] THEN acc
    ELSE LET cell == c[k \div sz[2]][k % sz[2]]
         IN  Bind(IF IsFluid(cell.cell_type) THEN RangeCell(acc, cell) ELSE acc,
                  LAMBDA next : RangePass(c, sz, k + 1, next))

UpdatePressureAndSpeedRange(c, sz, pressureRange, speedRange) ==
    RangePass(c, sz, 0, [pressure_range |-> pressureRange, speed_range |-> speedRange,
                         initialized |-> FALSE])

----------------------------------------------------------------------------
(* Presets: the grids and parameters a Simulation is constructed from.      *)
(* The border of the grid is made of BoundaryConditionCells, the interior   *)
(* of FluidCells, and the centre cell may be an obstacle.                   *)

OnBorder(x, y) == x = 0 \/ x = NX - 1 \/ y = 0 \/ y = NY - 1
IsCentre(x, y) == x = NX \div 2 /\ y = NY \div 2

\* the side of the grid a layout leaves without wall ("none" for box and channel)
OpenSide(layout) ==
    CASE layout \in {"open_left", "gap_left"} -> "left"
      [] layout \in {"open_right", "gap_right"} -> "right"
      [] layout \in {"open_bottom", "gap_bottom"} -> "bottom"
      [] layout \in {"open_top", "gap_top"} -> "top"
      [] OTHER -> "none"

\* (x,y) is a border cell of the named side, the corners excluded
OnSide(side, x, y) ==
    CASE side = "left" -> x = 0 /\ y > 0 /\ y < NY - 1
      [] side = "right" -> x = NX - 1 /\ y > 0 /\ y < NY - 1
      [] side = "bottom" -> y = 0 /\ x > 0 /\ x < NX - 1
      [] side = "top" -> y = NY - 1 /\ x > 0 /\ x < NX - 1
      [] OTHER -> FALSE

\* (x,y) is the middle border cell of the named side
MidOfSide(side, x, y) ==
    OnSide(side, x, y) /\ (IF side \in {"left", "right"} THEN y = NY \div 2 ELSE x = NX \div 2)

\* (x,y) is the interior cell next to the middle border cell of the named side
BehindMidOfSide(side, x, y) ==
    CASE side = "left" -> x = 1 /\ y = NY \div 2
      [] side = "right" -> x = NX - 2 /\ y = NY \div 2
      [] side = "bottom" -> y = 1 /\ x = NX \div 2
      [] side = "top" -> y = NY - 2 /\ x = NX \div 2
      [] OTHER -> FALSE

\* the layouts "mix0" .. : boundary cells of changing kinds on the border, and
\* FluidCells, VoidCells and boundary cells of every kind inside
MixLayouts == {"mix0", "mix1", "mix2", "mix3", "mix4", "mix5"}

MixSeed(layout) ==
    CASE layout = "mix0" -> 0
      [] layout = "mix1" -> 1
      [] layout = "mix2" -> 2
      [] layout = "mix3" -> 3
      [] layout = "mix4" -> 4
      [] layout = "mix5" -> 5

MixBorderKinds == <<"NoSlipCell", "OutFlowCell", "FreeSlipCell", "InflowCell", "NoSlipCell">>

MixInnerTypes ==
    <<"FluidCell", "FluidCell", "OutFlowCell", "FluidCell", "VoidCell", "FluidCell",
      "NoSlipCell", "FluidCell", "FluidCell", "InflowCell", "FluidCell", "FreeSlipCell",
      "FluidCell">>

MixType(seed, x, y) ==
    IF OnBorder(x, y)
    THEN MixBorderKinds[((x + 2 * y + seed) % Len(MixBorderKinds)) + 1]
    ELSE MixInnerTypes[((3 * x + 5 * y + 7 * seed) % Len(MixInnerTypes)) + 1]

\* layout "box": every border cell has kind wall; layout "channel": Inflow on
\* the left, OutFlow on the right, kind wall at the bottom and the top;
\* layout "open_<side>": the border cells of that side are FluidCells;
\* layout "gap_<side>": the middle border cell of that side is a FluidCell, and
\* on the left and bottom side the interior cell behind it is a wall cell;
\* layout "solid": no FluidCell, every interior cell has kind obstacle
PresetType(d, x, y) ==
    IF d.layout \in MixLayouts THEN MixType(MixSeed(d.layout), x, y)
    ELSE IF d.layout = "solid" THEN (IF OnBorder(x, y) THEN d.wall ELSE d.obstacle)
    ELSE IF OnBorder(x, y)
    THEN IF d.layout = "channel" /\ y > 0 /\ y < NY - 1 /\ x = 0 THEN "InflowCell"
         ELSE IF d.layout = "channel" /\ y > 0 /\ y < NY - 1 /\ x = NX - 1 THEN "OutFlowCell"
         ELSE IF d.layout \in {"open_left", "open_right", "open_bottom", "open_top"}
                 /\ OnSide(OpenSide(d.layout), x, y) THEN "FluidCell"
         ELSE IF d.layout \in {"gap_left", "gap_right", "gap_bottom", "gap_top"}
                 /\ MidOfSide(OpenSide(d.layout), x, y) THEN "FluidCell"
         ELSE d.wall
    ELSE IF d.layout \in {"gap_left", "gap_bottom"}
            /\ BehindMidOfSide(OpenSide(d.layout), x, y) THEN d.wall
    ELSE IF IsCentre(x, y) THEN d.obstacle ELSE "FluidCell"

PresetVelocity(d, t, x, y) ==
    IF t = "InflowCell" THEN <<d.drive, 0>>
    ELSE IF t = "FluidCell" /\ d.field = "varied"
         THEN <<Milli(10 * (x + 1) - 8 * y), Milli(5 * y - 3 * x + 12)>>
    ELSE <<0, 0>>

PresetPressure(d, t, x, y) ==
    IF t = "FluidCell" /\ d.field = "varied" THEN Milli(20 * x + 10 * y)
    ELSE IF t = "FluidCell" /\ d.field = "uniform" THEN Milli(2000)
    ELSE 0

\* the lid: the top wall moves with velocity [drive, 0]
PresetBcv(d, t, x, y) ==
    IF IsBoundary(t) /\ y = NY - 1 THEN <<d.drive, 0>> ELSE <<0, 0>>

PresetCells(d) ==
    [x \in Xs |-> [y \in Ys |->
        LET t == PresetType(d, x, y)
        IN  NewCell(t, PresetVelocity(d, t, x, y), PresetPressure(d, t, x, y),
                    PresetBcv(d, t, x, y))]]

PresetParams(d) ==
    [space_size |-> <<NX, NY>>,
     delta_space |-> <<Milli(1000), Milli(500)>>,
     delta_time |-> Milli(100),
     reynolds |-> Milli(10000),
     acceleration |-> d.acceleration]

Descriptor(layout, wall, obstacle, field, drive, acceleration) ==
    [layout |-> layout, wall |-> wall, obstacle |-> obstacle, field |-> field,
     drive |-> drive, acceleration |-> acceleration]

Presets ==
    \* at rest
    {Descriptor("box", w, "FluidCell", "zero", 0, <<0, 0>>) : w \in BoundaryKinds}
    \cup {Descriptor("box", "NoSlipCell", "FluidCell", "uniform", v, <<0, 0>>) :
            v \in {0, Milli(50)}}
    \* lid-driven cavity, moving fluid in a box
    \cup {Descriptor("box", w, "FluidCell", f, Milli(50), <<0, 0>>) :
            w \in BoundaryKinds, f \in {"zero", "varied"}}
    \* an obstacle in the centre
    \cup {Descriptor("box", "NoSlipCell", o, "varied", Milli(50), <<0, 0>>) :
            o \in BoundaryKinds \cup {"VoidCell"}}
    \* channel flow
    \cup {Descriptor("channel", w, o, f, Milli(50), <<0, 0>>) :
            w \in {"NoSlipCell", "FreeSlipCell"}, o \in {"FluidCell", "NoSlipCell"},
            f \in {"zero", "varied"}}
    \* gravity
    \cup {Descriptor("box", "NoSlipCell", "FluidCell", "zero", 0, <<0, -Milli(100)>>)}
    \* FluidCells on the edge of the grid
    \cup {Descriptor(l, "NoSlipCell", "FluidCell", "varied", Milli(50), <<0, 0>>) :
            l \in {"open_left", "open_right", "open_bottom", "open_top",
                   "gap_left", "gap_right", "gap_bottom", "gap_top"}}
    \* mixed arrangements of every cell type
    \cup {Descriptor(l, "NoSlipCell", "FluidCell", "varied", Milli(50), <<0, 0>>) :
            l \in MixLayouts}
    \* a grid without any FluidCell
    \cup {Descriptor("solid", "NoSlipCell", o, "zero", 0, <<0, 0>>) :
            o \in {"NoSlipCell", "VoidCell"}}
    \* the same with OutFlow cells next to the FluidCell on the edge
    \cup {Descriptor(l, "OutFlowCell", "FluidCell", "varied", Milli(50), <<0, 0>>) :
            l \in {"gap_left", "gap_bottom"}}

----------------------------------------------------------------------------
(* The Simulation *)

\* Simulation::from_preset
Init ==
    \E d \in Presets :
        /\ cells = PresetCells(d)
        /\ params = PresetParams(d)
        /\ time = 0
        /\ initial_pressure_norm = <<>>
        /\ fluid_cell_count = <<>>
        /\ pressure_range = <<0, 0>>
        /\ speed_range = <<0, 0>>
        /\ psi_range = <<0, 0>>
        /\ pc = "returned"
        /\ itr = 0
        /\ steps = 0
        /\ phases = <<>>
        /\ preset = PresetCells(d)
        /\ solve = [start |-> PresetCells(d), refreshed |-> PresetCells(d),
                    residual_norm |-> NaN, checks |-> 0,
                    refreshes |-> 0, sweeps |-> 0, exit |-> "none"]
        /\ probe = [op |-> "none"]

\* faulty variant of NextPc: the velocity correction placed before the solve
NextPcCorrectorFirst(p) ==
    CASE p = "update_boundary_velocities" -> "update_boundary_pressures_and_fg"
      [] p = "update_boundary_pressures_and_fg" -> "update_fg"
      [] p = "update_fg" -> "update_rhs"
      [] p = "update_rhs" -> "update_velocity"
      [] p = "update_velocity" -> "solve_poisson_pressure_equation"
      [] p = "solve_poisson_pressure_equation" -> "update_psi"
      [] p = "update_psi" -> "update_pressure_and_speed_range"
      [] p = "update_pressure_and_speed_range" -> "advance_time"
      [] p = "advance_time" -> "returned"

\* iterate_one_timestep: the statement that follows statement p
NextPc(p) ==
    CASE p = "update_boundary_velocities" -> "update_boundary_pressures_and_fg"
      [] p = "update_boundary_pressures_and_fg" -> "update_fg"
      [] p = "update_fg" -> "update_rhs"
      [] p = "update_rhs" -> "solve_poisson_pressure_equation"
      [] p = "solve_poisson_pressure_equation" -> "update_velocity"
      [] p = "update_velocity" -> "update_psi"
      [] p = "update_psi" -> "update_pressure_and_speed_range"
      [] p = "update_pressure_and_speed_range" -> "advance_time"
      [] p = "advance_time" -> "returned"

FirstPc == "update_boundary_velocities"

\* a statement of iterate_one_timestep has finished
Finish(p) ==
    /\ pc' = NextPc(p)
    /\ phases' = Append(phases, p)

\* the caller invokes iterate_one_timestep
Call ==
    /\ pc = "returned"
    /\ steps < MaxSteps
    /\ pc' = FirstPc
    /\ phases' = <<>>
    /\ UNCHANGED <<probe, cells, params, time, initial_pressure_norm, fluid_cell_count,
                   pressure_range, speed_range, psi_range, itr, steps, preset, solve>>

\* the call aborts (panic): it never returns and the remaining statements,
\* `self.time += self.delta_time` among them, are not executed
Abort ==
    /\ pc' = "aborted"
    /\ phases' = phases

BoundaryVelocities ==
    /\ pc = "update_boundary_velocities"
    /\ \E r \in {BoundaryRun(cells, params.space_size, 0, TRUE, FALSE)} :
          /\ cells' = r.cells
          /\ IF r.aborted THEN Abort ELSE Finish(pc)
    /\ UNCHANGED <<probe, params, time, initial_pressure_norm, fluid_cell_count,
                   pressure_range, speed_range, psi_range, itr, steps, preset, solve>>

BoundaryPressuresAndFg ==
    /\ pc = "update_boundary_pressures_and_fg"
    /\ cells' = UpdateBoundaryPressuresAndFg(cells, params.space_size)
    /\ Finish(pc)
    /\ UNCHANGED <<probe, params, time, initial_pressure_norm, fluid_cell_count,
                   pressure_range, speed_range, psi_range, itr, steps, preset, solve>>

MomentumPrediction ==
    /\ pc = "update_fg"
    /\ \E r \in {FgRun(cells, params, 0)} :
          /\ cells' = r.cells
          /\ IF r.aborted THEN Abort ELSE Finish(pc)
    /\ UNCHANGED <<probe, params, time, initial_pressure_norm, fluid_cell_count,
                   pressure_range, speed_range, psi_range, itr, steps, preset, solve>>

RhsAssembly ==
    /\ pc = "update_rhs"
    /\ \E r \in {RhsRun(cells, params, 0)} :
          /\ cells' = r.cells
          /\ IF r.aborted THEN Abort ELSE Finish(pc)
    /\ UNCHANGED <<probe, params, time, initial_pressure_norm, fluid_cell_count,
                   pressure_range, speed_range, psi_range, itr, steps, preset, solve>>

\* solve_poisson_pressure_equation up to the loop: get_initial_pressure_norm
PoissonEnter ==
    /\ pc = "solve_poisson_pressure_equation"
    /\ LET got == GetInitialPressureNorm(cells, params.space_size,
                                         initial_pressure_norm, fluid_cell_count)
       IN  /\ initial_pressure_norm' = <<got[1]>>
           /\ fluid_cell_count' = <<got[2]>>
    /\ itr' = 0
    /\ pc' = "poisson_loop"
    /\ solve' = [start |-> cells, refreshed |-> cells,
                 residual_norm |-> NaN, checks |-> 0,
                 refreshes |-> 0, sweeps |-> 0, exit |-> "none"]
    /\ UNCHANGED <<probe, cells, params, time, pressure_range, speed_range, psi_range,
                   steps, phases, preset>>

\* faulty variant of LoopDone: an inclusive range, 0..=ITR_MAX
LoopDoneInclusive(i) == i > ITR_MAX

\* `for _ in 0..ITR_MAX`: the range is used up after i iterations
LoopDone(i) == i >= ITR_MAX

\* the head of the loop and the convergence check of one iteration
PoissonLoop ==
    /\ pc = "poisson_loop"
    /\ IF LoopDone(itr)
       THEN /\ Finish("solve_poisson_pressure_equation")
            /\ solve' = [solve EXCEPT !.exit = "exhausted"]
       ELSE IF ResidualAborts(cells, params)
       THEN /\ Abort
            /\ solve' = [solve EXCEPT !.exit = "aborted"]
       ELSE LET residual_norm == ResidualNorm(cells, params, fluid_cell_count[1])
            IN  IF StopSweeping(residual_norm, initial_pressure_norm[1])
                THEN /\ Finish("solve_poisson_pressure_equation")
                     /\ solve' = [solve EXCEPT !.exit = "break",
                                               !.residual_norm = residual_norm,
                                               !.checks = @ + 1]
                ELSE /\ pc' = "poisson_refresh"
                     /\ phases' = phases
                     /\ solve' = [solve EXCEPT !.residual_norm = residual_norm,
                                               !.checks = @ + 1]
    /\ UNCHANGED <<probe, cells, params, time, initial_pressure_norm, fluid_cell_count,
                   pressure_range, speed_range, psi_range, itr, steps, preset>>

\* the boundary pressure refresh of one sweep
PoissonRefresh ==
    /\ pc = "poisson_refresh"
    /\ cells' = UpdatePressuresForBoundaryCells(cells, params.space_size)
    /\ pc' = "poisson_sor"
    /\ solve' = [solve EXCEPT !.refreshes = @ + 1, !.refreshed = cells']
    /\ UNCHANGED <<probe, params, time, initial_pressure_norm, fluid_cell_count,
                   pressure_range, speed_range, psi_range, itr, steps, phases, preset>>

\* the FluidCell pass of one sweep, and the end of the loop body
PoissonSor ==
    /\ pc = "poisson_sor"
    /\ cells' = SorPass(cells, params, 0)
    /\ itr' = itr + 1
    /\ pc' = "poisson_loop"
    /\ solve' = [solve EXCEPT !.sweeps = @ + 1]
    /\ UNCHANGED <<probe, params, time, initial_pressure_norm, fluid_cell_count,
                   pressure_range, speed_range, psi_range, steps, phases, preset>>

VelocityCorrection ==
    /\ pc = "update_velocity"
    /\ cells' = UpdateVelocity(cells, params)
    /\ Finish(pc)
    /\ UNCHANGED <<probe, params, time, initial_pressure_norm, fluid_cell_count,
                   pressure_range, speed_range, psi_range, itr, steps, preset, solve>>

StreamFunction ==
    /\ pc = "update_psi"
    /\ cells' = UpdatePsi(cells, params)
    /\ psi_range' = UpdatePsiRange(cells', params.space_size, psi_range)
    /\ Finish(pc)
    /\ UNCHANGED <<probe, params, time, initial_pressure_norm, fluid_cell_count,
                   pressure_range, speed_range, itr, steps, preset, solve>>

RangeUpdate ==
    /\ pc = "update_pressure_and_speed_range"
    /\ LET r == UpdatePressureAndSpeedRange(cells, params.space_size,
                                            pressure_range, speed_range)
       IN  /\ pressure_range' = r.pressure_range
           /\ speed_range' = r.speed_range
    /\ Finish(pc)
    /\ UNCHANGED <<probe, cells, params, time, initial_pressure_norm, fluid_cell_count,
                   psi_range, itr, steps, preset, solve>>

\* self.time += self.delta_time, and the call returns
AdvanceTime ==
    /\ pc = "advance_time"
    /\ time' = time + params.delta_time
    /\ steps' = steps + 1
    /\ Finish(pc)
    /\ UNCHANGED <<probe, cells, params, initial_pressure_norm, fluid_cell_count,
                   pressure_range, speed_range, psi_range, itr, preset, solve>>

Next ==
    \/ Call
    \/ BoundaryVelocities
    \/ BoundaryPressuresAndFg
    \/ MomentumPrediction
    \/ RhsAssembly
    \/ PoissonEnter
    \/ PoissonLoop
    \/ PoissonRefresh
    \/ PoissonSor
    \/ VelocityCorrection
    \/ StreamFunction
    \/ RangeUpdate
    \/ AdvanceTime

Spec == Init /\ [][Next]_vars

----------------------------------------------------------------------------
(* Direct calls of grid operations between two timesteps.  A timestep that  *)
(* meets a FluidCell on the grid edge aborts before its Poisson loop, so    *)
(* the in-sweep boundary refresh never runs on such a grid inside a         *)
(* timestep, and the predictor calls a stencil only on FluidCells; here     *)
(* both are applied to every grid a returned call leaves.                   *)

\* update_pressures_for_boundary_cells applied to the grid as it is
ProbeRefresh ==
    /\ pc = "returned"
    /\ cells' = UpdatePressuresForBoundaryCells(cells, params.space_size)
    /\ pc' = "probed"
    /\ probe' = [op |-> "refresh"]
    /\ UNCHANGED <<params, time, initial_pressure_norm, fluid_cell_count,
                   pressure_range, speed_range, psi_range, itr, steps, phases,
                   preset, solve>>

\* one of the eight stencils called on cell (x,y)
ProbeStencil ==
    /\ pc = "returned"
    /\ \E name \in StencilNames, x \in Xs, y \in Ys :
          probe' = [op |-> "stencil", name |-> name, x |-> x, y |-> y,
                    out |-> Stencil(name, cells, params.space_size,
                                    params.delta_space, x, y)]
    /\ pc' = "probed"
    /\ UNCHANGED <<cells, params, time, initial_pressure_norm, fluid_cell_count,
                   pressure_range, speed_range, psi_range, itr, steps, phases,
                   preset, solve>>

\* set_boundary_conditions, the resolver as one pass, applied to the grid as it is
ProbeResolve ==
    /\ pc = "returned"
    /\ \E r \in {BoundaryRun(cells, params.space_size, 0, TRUE, TRUE)} :
          /\ cells' = r.cells
          /\ pc' = "probed"
          /\ probe' = [op |-> IF r.aborted THEN "resolve_aborted" ELSE "resolve"]
    /\ UNCHANGED <<params, time, initial_pressure_norm, fluid_cell_count,
                   pressure_range, speed_range, psi_range, itr, steps, phases,
                   preset, solve>>

NextProbe ==
    \/ Next
    \/ ProbeRefresh
    \/ ProbeResolve
    \/ ProbeStencil

SpecProbe == Init /\ [][NextProbe]_vars

----------------------------------------------------------------------------
(* Properties of the time stepper *)

\* the statements of iterate_one_timestep in the order the specification gives
PhaseOrder ==
    <<"update_boundary_velocities", "update_boundary_pressures_and_fg",
      "update_fg", "update_rhs", "solve_poisson_pressure_equation",
      "update_velocity", "update_psi", "update_pressure_and_speed_range",
      "advance_time">>

\* the statement of iterate_one_timestep that control is in
PhaseOfPc ==
    IF pc \in {"poisson_loop", "poisson_refresh", "poisson_sor"}
    THEN "solve_poisson_pressure_equation" ELSE pc

InSolve == pc \in {"poisson_loop", "poisson_refresh", "poisson_sor"}

FluidAt(c, x, y) == IsFluid(c[x][y].cell_type)

(* C1: each call of iterate_one_timestep runs every phase exactly once and  *)
(* strictly in the order boundary velocities, boundary pressure+predictor,  *)
(* momentum prediction, RHS assembly, Poisson relaxation, velocity          *)
(* correction, stream function, ranges, time increment: the phases finished *)
(* so far are always a prefix of that order, the phase in progress is the   *)
(* next one of it, a returned call has finished all nine, and time has been *)
(* incremented once per returned call and not at all inside a running one.  *)
C1_PhasesInOrder ==
    /\ Len(phases) <= Len(PhaseOrder)
    /\ \A i \in 1 .. Len(phases) : phases[i] = PhaseOrder[i]
    /\ pc \notin {"returned", "aborted"} => PhaseOfPc = PhaseOrder[Len(phases) + 1]
    /\ (pc = "returned" /\ steps > 0) => phases = PhaseOrder
    /\ time = steps * params.delta_time

C1_Witness ==
    /\ pc = "returned"
    /\ steps = 2
    /\ phases = PhaseOrder
    /\ time = 2 * params.delta_time
    /\ solve.sweeps > 0

\* the grid the simulation was built from is at rest and has no obstacle
AtRestPreset ==
    /\ params.acceleration = <<0, 0>>
    /\ \A x \in Xs, y \in Ys :
        /\ preset[x][y].velocity = <<0, 0>>
        /\ preset[x][y].pressure = 0
        /\ preset[x][y].f = 0
        /\ preset[x][y].g = 0
        /\ preset[x][y].boundary_condition_velocity = <<0, 0>>
        /\ OnBorder(x, y) <=> IsBoundary(preset[x][y].cell_type)
        /\ ~OnBorder(x, y) <=> IsFluid(preset[x][y].cell_type)

(* C2: the rest state is a fixed point.  From a grid without obstacles      *)
(* whose cells all start with zero velocity, pressure, f, g and prescribed  *)
(* boundary velocity, and with zero acceleration, every FluidCell has       *)
(* velocity [0,0] and pressure 0 in every state, whatever the number of     *)
(* calls of iterate_one_timestep.                                           *)
C2_RestIsFixedPoint ==
    AtRestPreset =>
        \A x \in Xs, y \in Ys :
            FluidAt(cells, x, y) =>
                cells[x][y].velocity = <<0, 0>> /\ cells[x][y].pressure = 0

C2_Witness ==
    /\ AtRestPreset
    /\ pc = "returned"
    /\ steps = 2
    /\ \E x \in Xs, y \in Ys : FluidAt(cells, x, y)

C3_SweepsBounded ==
    /\ itr <= ITR_MAX
    /\ solve.sweeps <= ITR_MAX
    /\ solve.exit = "exhausted" =>
        /\ solve.sweeps = ITR_MAX
        /\ pc = "returned" =>
            /\ phases = PhaseOrder
            /\ time = steps * params.delta_time

C3_ExhaustedReturns ==
    (pc = "poisson_loop" /\ itr = ITR_MAX) =>
        /\ pc' = "update_velocity"
        /\ cells' = cells

(* C3: every Poisson solve performs at most ITR_MAX = 100 sweeps; when      *)
(* neither stopping bound was met within them the solve returns with the    *)
(* pressure of the last sweep, control passes to the velocity correction,   *)
(* and the call finishes all of its phases, the time increment included.    *)
C3_SolveTerminates == [](C3_SweepsBounded) /\ [][C3_ExhaustedReturns]_vars

C3_Witness ==
    /\ solve.exit = "exhausted"
    /\ solve.sweeps = ITR_MAX
    /\ pc = "returned"
    /\ steps = 1
    /\ ~StopSweeping(ResidualNorm(cells, params, fluid_cell_count[1]),
                     initial_pressure_norm[1])

\* the fields of the Simulation other than the grid
Scalars ==
    <<params, time, initial_pressure_norm, fluid_cell_count,
      pressure_range, speed_range, psi_range>>

(* C4: a Poisson solve that uses up ITR_MAX sweeps without meeting a bound  *)
(* is surfaced: leaving the solve that way changes some field of the        *)
(* Simulation (a counter, a flag), which leaving it converged does not.     *)
C4_ExhaustionSurfaced ==
    [][(pc = "poisson_loop" /\ itr = ITR_MAX) =>
           (Scalars' # Scalars \/ cells' # cells)]_vars

\* the residual of the claim: over the FluidCells of the grid as it is
ResidualNow == ResidualNorm(cells, params, CountFluid(cells, params.space_size, 0))

\* neither r < eps nor r < eps * initial_pressure_norm
NeitherBoundMet ==
    /\ ~Less(ResidualNow, POISSON_EPSILON)
    /\ ~Less(ResidualNow, Mul(initial_pressure_norm[1], POISSON_EPSILON))

C5_SweepIffUnconverged ==
    /\ (pc = "poisson_loop" /\ itr < ITR_MAX /\ pc' # "aborted") =>
        /\ cells' = cells
        /\ pc' = "poisson_refresh" <=> NeitherBoundMet
        /\ pc' = "update_velocity" <=> ~NeitherBoundMet
    /\ pc = "poisson_refresh" =>
        /\ pc' = "poisson_sor"
        /\ cells' = UpdatePressuresForBoundaryCells(cells, params.space_size)
    /\ pc = "poisson_sor" => pc' = "poisson_loop"
    /\ pc' = "poisson_refresh" => pc = "poisson_loop"

\* the pressure of grid c satisfies the discrete Poisson equation exactly
ExactAt(c) ==
    \A x \in Xs, y \in Ys :
        FluidAt(c, x, y) => Residual(c, params.delta_space, x, y) = 0

C5_ExactStartNoSweep ==
    ((InSolve \/ pc = "update_velocity") /\ ExactAt(solve.start)) =>
        /\ solve.sweeps = 0
        /\ solve.refreshes = 0
        /\ \A x \in Xs, y \in Ys : cells[x][y].pressure = solve.start[x][y].pressure

(* C5: in a Poisson solve the residual is evaluated before each sweep, on   *)
(* the pressure the previous sweep left; a sweep (boundary pressure refresh *)
(* then the FluidCell pass) runs if and only if the residual satisfies      *)
(* neither r < eps nor r < eps * initial_pressure_norm; so a pressure field *)
(* that satisfies the discrete equation exactly at the start of the solve   *)
(* gets no sweep and no cell's pressure is changed by the solve.            *)
C5_ResidualDecidesSweep ==
    [](C5_ExactStartNoSweep) /\ [][C5_SweepIffUnconverged]_vars

\* the exact start on a grid with FluidCells, and on one without: there the
\* mean over zero FluidCells makes the residual norm NaN, no bound is ever met
\* and all ITR_MAX sweeps run, changing nothing
C5_ExactStartNoSweepWithFluid ==
    ((InSolve \/ pc = "update_velocity") /\ ExactAt(solve.start)) =>
        /\ \A x \in Xs, y \in Ys : cells[x][y].pressure = solve.start[x][y].pressure
        /\ IF CountFluid(cells, params.space_size, 0) > 0
           THEN solve.sweeps = 0 /\ solve.refreshes = 0
           ELSE pc = "update_velocity" => solve.sweeps = ITR_MAX

(* C5, amended: in a Poisson solve the residual is evaluated before each    *)
(* sweep, on the pressure the previous sweep left; a sweep (boundary        *)
(* pressure refresh then the FluidCell pass) runs if and only if the        *)
(* residual satisfies neither r < eps nor r < eps * initial_pressure_norm;  *)
(* so, on a grid with at least one FluidCell, a pressure field that         *)
(* satisfies the discrete equation exactly at the start of the solve gets   *)
(* no sweep and no cell's pressure is changed by the solve. On a grid       *)
(* without FluidCells the residual is NaN (0/0), neither test is ever met   *)
(* and the solve runs all ITR_MAX sweeps, which change no pressure.         *)
C5_ResidualDecidesSweepWithFluid ==
    [](C5_ExactStartNoSweepWithFluid) /\ [][C5_SweepIffUnconverged]_vars

\* a solve that stopped after some sweeps on the relative bound alone
C5_Witness ==
    /\ pc = "update_velocity"
    /\ solve.exit = "break"
    /\ solve.sweeps > 0
    /\ ~Less(ResidualNow, POISSON_EPSILON)
    /\ Less(ResidualNow, Mul(initial_pressure_norm[1], POISSON_EPSILON))

\* a solve that started from an exact, non-zero pressure field
C5_ExactStartReached ==
    /\ pc = "update_velocity"
    /\ ExactAt(solve.start)
    /\ \E x \in Xs, y \in Ys : FluidAt(cells, x, y) /\ cells[x][y].pressure # 0

\* the FluidCells of grid c
FluidCoords(c) == {xy \in Xs \X Ys : FluidAt(c, xy[1], xy[2])}

\* no Poisson solve has been entered yet
BeforeFirstSolve ==
    /\ steps = 0
    /\ ~InSolve
    /\ Len(phases) <= 4
    /\ solve.exit # "aborted"

C6_EmptyUntilFirstSolve ==
    BeforeFirstSolve <=> (initial_pressure_norm = <<>> /\ fluid_cell_count = <<>>)

C6_FilledOnce ==
    IF initial_pressure_norm = <<>> /\ fluid_cell_count = <<>>
    THEN \/ UNCHANGED <<initial_pressure_norm, fluid_cell_count>>
         \/ /\ pc = "solve_poisson_pressure_equation"
            /\ initial_pressure_norm' = <<ComputePressureNorm(cells, params.space_size)[1]>>
            /\ fluid_cell_count' = <<Cardinality(FluidCoords(cells))>>
    ELSE UNCHANGED <<initial_pressure_norm, fluid_cell_count>>

(* C6: the cache (initial_pressure_norm, fluid_cell_count) is empty until   *)
(* the first Poisson solve, is filled during that solve with the RMS        *)
(* pressure over the FluidCells at that moment and their number, and has    *)
(* those two values in every later state, however the pressure evolves.     *)
C6_CacheSetOnce == [](C6_EmptyUntilFirstSolve) /\ [][C6_FilledOnce]_vars

\* a later solve, on a pressure field whose RMS is no longer the cached one
C6_Witness ==
    /\ steps = 1
    /\ pc = "poisson_loop"
    /\ itr = 0
    /\ initial_pressure_norm # <<>>
    /\ ComputePressureNorm(cells, params.space_size)[1] # initial_pressure_norm[1]
    /\ fluid_cell_count = <<Cardinality(FluidCoords(cells))>>

\* ((f[x][y] - f[x-1][y])/dx + (g[x][y] - g[x][y-1])/dy)/dt on grid c
DivergenceOverDt(c, x, y) ==
    Div(Div(c[x][y].f - c[x - 1][y].f, params.delta_space[1])
        + Div(c[x][y].g - c[x][y - 1].g, params.delta_space[2]),
        params.delta_time)

(* C7: RHS assembly gives every FluidCell (x,y) the value                   *)
(* rhs = ((f[x][y] - f[x-1][y])/dx + (g[x][y] - g[x][y-1])/dy)/dt of the f  *)
(* and g present when it runs, those of non-fluid left and bottom           *)
(* neighbours included, and writes nothing else: no other field of a        *)
(* FluidCell, no field of another cell, no field of the Simulation.         *)
C7_RhsIsDivergence ==
    [][(pc = "update_rhs" /\ pc' # "aborted") =>
          /\ cells' = [x \in Xs |-> [y \in Ys |->
                          IF FluidAt(cells, x, y)
                          THEN [cells[x][y] EXCEPT !.rhs = DivergenceOverDt(cells, x, y)]
                          ELSE cells[x][y]]]
          /\ Scalars' = Scalars]_vars

\* after an assembly that used the f of a non-fluid left neighbour
C7_Witness ==
    /\ pc = "solve_poisson_pressure_equation"
    /\ \E x \in Xs, y \in Ys :
        /\ FluidAt(cells, x, y)
        /\ cells[x][y].rhs # 0
        /\ ~FluidAt(cells, x - 1, y)
        /\ cells[x - 1][y].f # 0
    /\ \E x \in Xs, y \in Ys :
        /\ FluidAt(cells, x, y)
        /\ ~FluidAt(cells, x, y - 1)
        /\ cells[x][y].g # cells[x][y - 1].g

(* C8: the velocity correction is idempotent: run again on the grid it has  *)
(* just produced (same pressure, same f and g), it gives every cell the     *)
(* velocity it already has and changes nothing else.                        *)
C8_CorrectorIdempotent ==
    pc = "update_psi" => UpdateVelocity(cells, params) = cells

\* after a correction that moved a velocity away from its predictor value
C8_Witness ==
    /\ pc = "update_psi"
    /\ \E x \in Xs, y \in Ys :
        /\ FluidAt(cells, x, y)
        /\ cells[x][y].velocity[1] # cells[x][y].f
        /\ cells[x][y].velocity[2] # cells[x][y].g
    /\ \E x \in Xs, y \in Ys :
        /\ FluidAt(cells, x, y)
        /\ IsBoundary(cells[x + 1][y].cell_type)

FluidNeighbour(c, x, y) ==
    InGrid(params.space_size, x, y) /\ FluidAt(c, x, y)

\* the claim of C9 for the NoSlip cell (x,y) of grid c
NoSlipReflected(c, x, y) ==
    LET b == c[x][y]
        bcv == b.boundary_condition_velocity
    IN  /\ FluidNeighbour(c, x - 1, y) =>
            /\ c[x - 1][y].velocity[1] = 0
            /\ b.velocity[2] = 2 * bcv[2] - c[x - 1][y].velocity[2]
        /\ FluidNeighbour(c, x + 1, y) =>
            /\ b.velocity[1] = 0
            /\ b.velocity[2] = 2 * bcv[2] - c[x + 1][y].velocity[2]
        /\ FluidNeighbour(c, x, y - 1) =>
            /\ c[x][y - 1].velocity[2] = 0
            /\ b.velocity[1] = 2 * bcv[1] - c[x][y - 1].velocity[1]
        /\ FluidNeighbour(c, x, y + 1) =>
            /\ b.velocity[2] = 0
            /\ b.velocity[1] = 2 * bcv[1] - c[x][y + 1].velocity[1]

(* C9: after the boundary velocity resolution, for every NoSlip cell and    *)
(* every FluidCell adjacent to it, the velocity component stored on the     *)
(* face the two share is 0 and the boundary cell's component tangential to  *)
(* that face is 2 * (prescribed boundary velocity) - (the fluid cell's      *)
(* tangential component).                                                   *)
C9_NoSlipReflection ==
    pc = "update_boundary_pressures_and_fg" =>
        \A x \in Xs, y \in Ys :
            cells[x][y].cell_type = "NoSlipCell" => NoSlipReflected(cells, x, y)

\* the in-grid axis-neighbours of (x,y) that are FluidCells
FluidNeighbours(c, x, y) ==
    {n \in {<<x - 1, y>>, <<x + 1, y>>, <<x, y - 1>>, <<x, y + 1>>} :
        FluidNeighbour(c, n[1], n[2])}

RECURSIVE PressureSum(_, _)
PressureSum(c, ns) ==
    IF ns = {} THEN 0
    ELSE LET n == CHOOSE m \in ns : TRUE
         IN  c[n[1]][n[2]].pressure + PressureSum(c, ns \ {n})

\* arithmetic mean of the pressures of the FluidCell neighbours, 0 without any
MeanFluidPressure(c, x, y) ==
    LET ns == FluidNeighbours(c, x, y)
    IN  IF ns = {} THEN 0 ELSE Div(PressureSum(c, ns), Cardinality(ns) * SCALE)

(* C10: right after each boundary pressure refresh, the one of the timestep *)
(* and the one inside each Poisson sweep, the pressure of every             *)
(* BoundaryConditionCell is the arithmetic mean of the pressures of its     *)
(* in-grid axis-neighbours that are FluidCells, and exactly 0 when it has   *)
(* none (the count is never used as a divisor when it is zero).             *)
C10_BoundaryPressureIsMean ==
    pc \in {"update_fg", "poisson_sor"} =>
        \A x \in Xs, y \in Ys :
            IsBoundary(cells[x][y].cell_type) =>
                cells[x][y].pressure = MeanFluidPressure(cells, x, y)

\* inside a sweep: a boundary cell between several FluidCells, and one with none
C10_Witness ==
    /\ pc = "poisson_sor"
    /\ \E x \in Xs, y \in Ys :
        /\ IsBoundary(cells[x][y].cell_type)
        /\ Cardinality(FluidNeighbours(cells, x, y)) = 4
        /\ cells[x][y].pressure # 0
    /\ \E x \in Xs, y \in Ys :
        /\ IsBoundary(cells[x][y].cell_type)
        /\ FluidNeighbours(cells, x, y) = {}
        /\ cells[x][y].pressure = 0

\* least and greatest element of a non-empty set of numbers
MinOf(S) == CHOOSE m \in S : \A n \in S : m <= n
MaxIn(S) == CHOOSE m \in S : \A n \in S : m >= n

FluidPressures == {cells[xy[1]][xy[2]].pressure : xy \in FluidCoords(cells)}
FluidSpeeds == {Speed(cells[xy[1]][xy[2]]) : xy \in FluidCoords(cells)}

\* a call has run its range update and nothing has touched the grid since
RangesFresh == pc = "advance_time" \/ (pc = "returned" /\ steps > 0)

(* C11: after every timestep on a grid with at least one FluidCell,         *)
(* pressure_range is [minimum, maximum] of the pressure over the FluidCells *)
(* and speed_range is [minimum, maximum] of the velocity magnitude over the *)
(* FluidCells, as the grid is at the end of that step: nothing of an        *)
(* earlier step survives, min <= max, and values of boundary and void cells *)
(* do not enter.                                                            *)
C11_RangesOverFluidCells ==
    (RangesFresh /\ FluidCoords(cells) # {}) =>
        /\ pressure_range = <<MinOf(FluidPressures), MaxIn(FluidPressures)>>
        /\ speed_range = <<MinOf(FluidSpeeds), MaxIn(FluidSpeeds)>>
        /\ pressure_range[1] <= pressure_range[2]
        /\ speed_range[1] <= speed_range[2]

\* after the second step: the initial [0, 0] is gone from both ranges, and a
\* boundary cell holds a pressure and a speed outside them
C11_Witness ==
    /\ pc = "returned"
    /\ steps = 2
    /\ pressure_range[1] > 0
    /\ pressure_range[1] < pressure_range[2]
    /\ speed_range[1] > 0
    /\ \E x \in Xs, y \in Ys :
        /\ IsBoundary(cells[x][y].cell_type)
        /\ cells[x][y].pressure < pressure_range[1]
        /\ Speed(cells[x][y]) > speed_range[2]

\* the grid with another psi in every cell
OtherPsi(c) ==
    [x \in Xs |-> [y \in Ys |->
        [c[x][y] EXCEPT !.psi = @ + Milli(37 * (x + 1) + 11 * y)]]]

\* the grid without psi
Physics(c) ==
    [x \in Xs |-> [y \in Ys |->
        [cell_type |-> c[x][y].cell_type,
         velocity |-> c[x][y].velocity,
         f |-> c[x][y].f,
         g |-> c[x][y].g,
         pressure |-> c[x][y].pressure,
         rhs |-> c[x][y].rhs,
         boundary_condition_velocity |-> c[x][y].boundary_condition_velocity]]]

\* what the statement at position p does to grid c
StepCells(p, c) ==
    CASE p = "update_boundary_velocities" -> UpdateBoundaryVelocities(c, params.space_size)
      [] p = "update_boundary_pressures_and_fg" ->
            UpdateBoundaryPressuresAndFg(c, params.space_size)
      [] p = "update_fg" -> UpdateFg(c, params)
      [] p = "update_rhs" -> UpdateRhs(c, params)
      [] p = "poisson_refresh" -> UpdatePressuresForBoundaryCells(c, params.space_size)
      [] p = "poisson_sor" -> SorPass(c, params, 0)
      [] p = "update_velocity" -> UpdateVelocity(c, params)
      [] p = "update_psi" -> UpdatePsi(c, params)
      [] OTHER -> c

\* one step, seen from a simulation that differs in psi (the three ranges are
\* arguments of no statement but the two that recompute them): it makes the
\* same decisions and reaches the same velocity, pressure, f, g, rhs and time
C12_SameStep ==
    /\ cells' = StepCells(pc, cells)
    /\ Physics(StepCells(pc, OtherPsi(cells))) = Physics(cells')
    /\ pc = "solve_poisson_pressure_equation" =>
        GetInitialPressureNorm(OtherPsi(cells), params.space_size,
                               initial_pressure_norm, fluid_cell_count)
            = <<initial_pressure_norm'[1], fluid_cell_count'[1]>>
    /\ ResidualAborts(OtherPsi(cells), params) = ResidualAborts(cells, params)
    /\ (pc = "poisson_loop" /\ ~LoopDone(itr) /\ ~ResidualAborts(cells, params)) =>
        (StopSweeping(ResidualNorm(OtherPsi(cells), params, fluid_cell_count[1]),
                      initial_pressure_norm[1])
            <=> pc' = "update_velocity")
    /\ time' = IF pc = "advance_time" THEN time + params.delta_time ELSE time

(* C12: psi, pressure_range, speed_range and psi_range never feed back into *)
(* the physics: from two states that agree on everything but those fields,  *)
(* every step takes the same branch and yields the same velocity, pressure, *)
(* f, g, rhs in every cell and the same time, so two such simulations agree *)
(* on them after any number of timesteps.                                   *)
C12_NoFeedback == [][C12_SameStep]_vars

\* a second call has run from a state whose psi and ranges were not the initial ones
C12_Witness ==
    /\ pc = "returned"
    /\ steps = 2
    /\ \E x \in Xs, y \in Ys : FluidAt(cells, x, y) /\ cells[x][y].psi # 0
    /\ psi_range[1] < psi_range[2]
    /\ pressure_range[1] < pressure_range[2]
    /\ speed_range[1] < speed_range[2]
    /\ \E x \in Xs, y \in Ys : cells[x][y].velocity # preset[x][y].velocity

C13_ConfigAsBuilt ==
    /\ params.space_size = <<NX, NY>>
    /\ \A x \in Xs, y \in Ys :
        /\ cells[x][y].cell_type = preset[x][y].cell_type
        /\ cells[x][y].boundary_condition_velocity
               = preset[x][y].boundary_condition_velocity

C13_ConfigKept ==
    /\ params' = params
    /\ \A x \in Xs, y \in Ys :
        /\ cells'[x][y].cell_type = cells[x][y].cell_type
        /\ cells'[x][y].boundary_condition_velocity
               = cells[x][y].boundary_condition_velocity

(* C13: configuration is never mutated after construction: in every state  *)
(* every cell has the cell_type and boundary_condition_velocity the         *)
(* Simulation was built with, and no step changes space_size, delta_space,  *)
(* delta_time, reynolds or acceleration.                                    *)
C13_ConfigImmutable == [](C13_ConfigAsBuilt) /\ [][C13_ConfigKept]_vars

\* two calls have moved velocities and pressures of walls with a prescribed velocity
C13_Witness ==
    /\ pc = "returned"
    /\ steps = 2
    /\ \E x \in Xs, y \in Ys :
        /\ IsBoundary(cells[x][y].cell_type)
        /\ cells[x][y].boundary_condition_velocity # <<0, 0>>
        /\ cells[x][y].velocity # preset[x][y].velocity
        /\ cells[x][y].velocity # cells[x][y].boundary_condition_velocity
        /\ cells[x][y].pressure # preset[x][y].pressure

\* the cells of the last column, and those of the last row
LastColumn == {<<NX - 1, y>> : y \in Ys}
LastRow == {<<x, NY - 1>> : x \in Xs}

\* grid c with other values in the FluidCells among the cells of S
Perturbed(c, S) ==
    [x \in Xs |-> [y \in Ys |->
        IF <<x, y>> \in S /\ FluidAt(c, x, y)
        THEN [c[x][y] EXCEPT !.pressure = @ + Milli(5),
                             !.velocity = <<@[1] + Milli(7), @[2] + Milli(3)>>,
                             !.f = @ + Milli(2),
                             !.g = @ + Milli(1)]
        ELSE c[x][y]]]

\* this step is a direct call of the in-sweep boundary pressure refresh
RefreshCalled == pc = "returned" /\ pc' = "probed" /\ probe'.op = "refresh"

\* this step is a direct call of the one-pass resolver
ResolveCalled == pc = "returned" /\ pc' = "probed" /\ probe'.op = "resolve"

\* this step resolves or refreshes boundary cells
EdgeStep ==
    \/ RefreshCalled
    \/ ResolveCalled
    \/ pc \in {"update_boundary_velocities", "update_boundary_pressures_and_fg"}

\* what the boundary operation of this step makes of grid c
EdgeOp(c) ==
    CASE pc = "update_boundary_velocities" -> UpdateBoundaryVelocities(c, params.space_size)
      [] pc = "update_boundary_pressures_and_fg" ->
             UpdateBoundaryPressuresAndFg(c, params.space_size)
      [] ResolveCalled -> SetBoundaryConditions(c, params.space_size)
      [] OTHER -> UpdatePressuresForBoundaryCells(c, params.space_size)

C14_EdgeNeverWraps ==
    EdgeStep =>
        /\ \A y \in Ys :
              IsBoundary(cells[0][y].cell_type) =>
                /\ cells'[0][y] = EdgeOp(Perturbed(cells, LastColumn))[0][y]
                /\ pc # "update_boundary_velocities" =>
                      cells'[0][y].pressure = MeanFluidPressure(cells, 0, y)
                /\ FluidAt(cells, NX - 1, y) =>
                      /\ cells'[NX - 1][y].pressure = cells[NX - 1][y].pressure
                      /\ cells'[NX - 1][y].velocity[1] = cells[NX - 1][y].velocity[1]
                      /\ cells'[NX - 1][y].f = cells[NX - 1][y].f
        /\ \A x \in Xs :
              IsBoundary(cells[x][0].cell_type) =>
                /\ cells'[x][0] = EdgeOp(Perturbed(cells, LastRow))[x][0]
                /\ pc # "update_boundary_velocities" =>
                      cells'[x][0].pressure = MeanFluidPressure(cells, x, 0)
                /\ FluidAt(cells, x, NY - 1) =>
                      /\ cells'[x][NY - 1].pressure = cells[x][NY - 1].pressure
                      /\ cells'[x][NY - 1].velocity[2] = cells[x][NY - 1].velocity[2]
                      /\ cells'[x][NY - 1].g = cells[x][NY - 1].g
        /\ RefreshCalled =>
              \A x \in Xs, y \in Ys : FluidAt(cells, x, y) => cells'[x][y] = cells[x][y]

(* C14: decrementing an edge coordinate never wraps into the grid.  For a   *)
(* BoundaryConditionCell at x = 0 (at y = 0) the boundary resolution of the *)
(* timestep and the boundary pressure refresh (which computes the index     *)
(* with wrapping_sub) treat the left (bottom) neighbour as absent: what     *)
(* they leave in that cell does not depend on any value held in column      *)
(* nx-1 (row ny-1), its pressure is the mean over the in-grid FluidCell     *)
(* neighbours alone, and the FluidCell at the other end of its row (column) *)
(* is not written as its neighbour.                                         *)
C14_EdgeNeverWrapsAlways == [][C14_EdgeNeverWraps]_vars

\* a direct refresh on a grid with a wall cell at x = 0 whose row ends in a
\* FluidCell of non-zero pressure, and whose own FluidCell neighbour gave it
\* a pressure other than that one
C14_Witness ==
    /\ probe.op = "refresh"
    /\ \E y \in Ys :
        /\ IsBoundary(cells[0][y].cell_type)
        /\ FluidAt(cells, NX - 1, y)
        /\ FluidAt(cells, 1, y)
        /\ cells[NX - 1][y].pressure # 0
        /\ cells[0][y].pressure # 0
        /\ cells[0][y].pressure # cells[NX - 1][y].pressure

\* grid c has a FluidCell on its edge
EdgeFluid(c) == \E x \in Xs, y \in Ys : OnBorder(x, y) /\ FluidAt(c, x, y)

\* the positions a call reaches before the second residual evaluation
UpToFirstResidual ==
    {"update_boundary_velocities", "update_boundary_pressures_and_fg", "update_fg",
     "update_rhs", "solve_poisson_pressure_equation", "poisson_loop"}

\* with a FluidCell on the edge no call has returned and time stands at 0
C15_NoCallReturns ==
    EdgeFluid(cells) =>
        /\ steps = 0
        /\ time = 0
        /\ pc \in UpToFirstResidual \cup {"returned", "aborted", "probed"}
        /\ pc \in {"returned", "probed"} => phases = <<>>
        /\ solve.sweeps = 0 /\ solve.refreshes = 0

\* this step is a direct call of a stencil
StencilCalled == pc = "returned" /\ pc' = "probed" /\ probe'.op = "stencil"

C15_AbortStep ==
    \* at the latest the first residual evaluation aborts
    /\ (EdgeFluid(cells) /\ pc = "poisson_loop") => pc' = "aborted"
    /\ pc' = "aborted" =>
          /\ pc \in UpToFirstResidual
          /\ time' = time
          /\ steps' = steps
          /\ phases' = phases
    \* no FluidCell is given a value that needs a cell beyond the edge
    /\ pc = "update_fg" =>
          \A x \in Xs, y \in Ys :
              FluidAt(cells, x, y) =>
                /\ (x = 0 \/ y = 0 \/ y = NY - 1) => cells'[x][y].f = cells[x][y].f
                /\ (x = 0 \/ y = 0 \/ x = NX - 1) => cells'[x][y].g = cells[x][y].g
    /\ pc = "update_rhs" =>
          \A x \in Xs, y \in Ys :
              (FluidAt(cells, x, y) /\ (x = 0 \/ y = 0)) =>
                  cells'[x][y].rhs = cells[x][y].rhs
    \* a stencil gives a value on an interior FluidCell and aborts elsewhere
    /\ StencilCalled =>
          /\ ~FluidAt(cells, probe'.x, probe'.y) => probe'.out = <<>>
          /\ (FluidAt(cells, probe'.x, probe'.y) /\ ~OnBorder(probe'.x, probe'.y))
                => probe'.out = <<StencilValue(probe'.name, cells, params.delta_space,
                                               probe'.x, probe'.y)>>
          /\ (\E r \in StencilReads(probe'.name, probe'.x, probe'.y) :
                  ~InGrid(params.space_size, r[1], r[2])) => probe'.out = <<>>

(* C15: a FluidCell placed on the edge of the grid makes                    *)
(* iterate_one_timestep abort during that very call, in the momentum        *)
(* predictor, the RHS assembly or at the latest the first residual          *)
(* evaluation of the Poisson solve: the call does not return, time is not   *)
(* advanced, no sweep runs, and no f, g or rhs is computed from a cell      *)
(* beyond the edge (nothing is read from the opposite edge).  Each of the   *)
(* eight stencils aborts when called on a cell that is not a FluidCell.     *)
C15_EdgeFluidAborts == [](C15_NoCallReturns) /\ [][C15_AbortStep]_vars

\* a call that got as far as the Poisson solve and aborted in its first
\* residual evaluation, the cache already filled
C15_Witness ==
    /\ pc = "aborted"
    /\ EdgeFluid(cells)
    /\ solve.exit = "aborted"
    /\ Len(phases) = 4
    /\ initial_pressure_norm # <<>>
    /\ time = 0

\* the predictor assigns f (g) of cell (x,y) of grid c
WritesF(c, x, y) == FluidAt(c, x, y) /\ FluidNeighbour(c, x + 1, y)
WritesG(c, x, y) == FluidAt(c, x, y) /\ FluidNeighbour(c, x, y + 1)

(* C16: momentum prediction writes f of a cell only when the cell is a      *)
(* FluidCell whose right neighbour exists and is a FluidCell, and g only    *)
(* when it is a FluidCell whose top neighbour exists and is a FluidCell     *)
(* (then the value is the predictor expression on the velocities of the     *)
(* grid); f and g of every other cell, the values the resolver fixed next   *)
(* to boundaries among them, and every velocity, pressure, rhs and psi are  *)
(* left unchanged, as is every field of the Simulation.                     *)
C16_PredictorFrame ==
    [][pc = "update_fg" =>
          /\ \A x \in Xs, y \in Ys :
                /\ cells'[x][y] = [cells[x][y] EXCEPT !.f = cells'[x][y].f,
                                                      !.g = cells'[x][y].g]
                /\ ~WritesF(cells, x, y) => cells'[x][y].f = cells[x][y].f
                /\ ~WritesG(cells, x, y) => cells'[x][y].g = cells[x][y].g
                /\ (WritesF(cells, x, y) /\ pc' # "aborted") =>
                      cells'[x][y].f = PredictF(cells, params, x, y)
                /\ (WritesG(cells, x, y) /\ pc' # "aborted") =>
                      cells'[x][y].g = PredictG(cells, params, x, y)
          /\ Scalars' = Scalars]_vars

\* after a prediction that changed f and g of a FluidCell between FluidCells
\* and kept, next to a wall on the right, an f the resolver had set
C16_Witness ==
    /\ pc = "update_rhs"
    /\ \E x \in Xs, y \in Ys :
        /\ WritesF(cells, x, y) /\ WritesG(cells, x, y)
        /\ cells[x][y].f # cells[x][y].velocity[1]
        /\ cells[x][y].g # cells[x][y].velocity[2]
    /\ \E x \in Xs, y \in Ys :
        /\ FluidAt(cells, x, y)
        /\ InGrid(params.space_size, x + 1, y)
        /\ IsBoundary(cells[x + 1][y].cell_type)
        /\ cells[x][y].f = cells[x][y].velocity[1]
        /\ cells[x][y].f # 0
        /\ cells[x][y].f # preset[x][y].f

\* the refreshes and FluidCell passes of the running solve go in pairs, the
\* refresh first
C17_OncePerSweep ==
    /\ pc \in {"poisson_loop", "poisson_refresh"} => solve.refreshes = solve.sweeps
    /\ pc = "poisson_sor" => solve.refreshes = solve.sweeps + 1
    /\ ~InSolve => solve.refreshes = solve.sweeps

C17_RefreshStep ==
    /\ pc = "poisson_refresh" =>
          /\ pc' = "poisson_sor"
          /\ \A x \in Xs, y \in Ys :
                /\ cells'[x][y] = [cells[x][y] EXCEPT !.pressure = cells'[x][y].pressure]
                /\ ~IsBoundary(cells[x][y].cell_type) =>
                      cells'[x][y].pressure = cells[x][y].pressure
          /\ Scalars' = Scalars
    /\ pc' = "poisson_sor" => pc = "poisson_refresh"
    /\ pc = "poisson_sor" => solve'.sweeps = solve.sweeps + 1
    /\ solve'.refreshes # solve.refreshes =>
          pc \in {"poisson_refresh", "solve_poisson_pressure_equation"}

(* C17: the boundary refresh inside the Poisson loop is pressure-only and   *)
(* happens exactly once per executed sweep, before that sweep's FluidCell   *)
(* pass: it changes only the pressure of BoundaryConditionCells and leaves  *)
(* every velocity, f, g, rhs and psi, and the pressure of every FluidCell   *)
(* and VoidCell, unchanged.                                                 *)
C17_RefreshPressureOnly == [](C17_OncePerSweep) /\ [][C17_RefreshStep]_vars

\* between the refresh and the FluidCell pass of a later sweep, on a grid with
\* a VoidCell: a boundary pressure moved, that of the VoidCell did not
C17_Witness ==
    /\ pc = "poisson_sor"
    /\ solve.sweeps >= 1
    /\ solve.refreshes = solve.sweeps + 1
    /\ \E x \in Xs, y \in Ys :
        /\ IsBoundary(cells[x][y].cell_type)
        /\ cells[x][y].pressure # solve.start[x][y].pressure
    /\ \E x \in Xs, y \in Ys :
        /\ cells[x][y].cell_type = "VoidCell"
        /\ cells[x][y].pressure = solve.start[x][y].pressure
        /\ cells[x][y].pressure # MeanFluidPressure(cells, x, y)

\* (1-w)p + w((pr + pl)/dx^2 + (pt + pb)/dy^2 - rhs)/(2/dx^2 + 2/dy^2), w = 1.7
Relaxed(p, pl, pr, pb, pt, rhs, ds) ==
    Mul(SCALE - Milli(1700), p)
    + Div(Mul(Milli(1700),
              Div(pr + pl, Powi2(ds[1])) + Div(pt + pb, Powi2(ds[2])) - rhs),
          Div(2 * SCALE, Powi2(ds[1])) + Div(2 * SCALE, Powi2(ds[2])))

\* the pressure of a left or bottom neighbour as the pass sees it: the new
\* value when that cell is a FluidCell, visited earlier in raster order
BackwardPressure(x, y) ==
    IF FluidAt(cells, x, y) THEN cells'[x][y].pressure ELSE cells[x][y].pressure

(* C18: within one SOR sweep FluidCells are updated in place in raster      *)
(* order (x ascending outer, y ascending inner): the new pressure of (x,y)  *)
(* is (1-w)p + w((p[x+1][y] + p[x-1][y])/dx^2 + (p[x][y+1] + p[x][y-1])/dy^2 *)
(* - rhs)/(2/dx^2 + 2/dy^2) with w = 1.7, where p[x-1][y] and p[x][y-1] are *)
(* the values already updated in this sweep when those cells are FluidCells *)
(* and p[x+1][y], p[x][y+1] are the values from before the FluidCell pass;  *)
(* the pass changes no field other than FluidCell pressure.                 *)
C18_SorInPlace ==
    [][pc = "poisson_sor" =>
          /\ \A x \in Xs, y \in Ys :
                /\ cells'[x][y] = [cells[x][y] EXCEPT !.pressure = cells'[x][y].pressure]
                /\ ~FluidAt(cells, x, y) => cells'[x][y].pressure = cells[x][y].pressure
                /\ FluidAt(cells, x, y) =>
                      cells'[x][y].pressure =
                          Relaxed(cells[x][y].pressure,
                                  BackwardPressure(x - 1, y), cells[x + 1][y].pressure,
                                  BackwardPressure(x, y - 1), cells[x][y + 1].pressure,
                                  cells[x][y].rhs, params.delta_space)
          /\ Scalars' = Scalars]_vars

\* after the first sweep of a solve: a FluidCell and its FluidCell neighbours
\* on the left and below have all been given new pressures
C18_Witness ==
    /\ pc = "poisson_loop"
    /\ solve.sweeps = 1
    /\ \E x \in Xs, y \in Ys :
        /\ FluidAt(cells, x, y)
        /\ FluidNeighbour(cells, x - 1, y)
        /\ FluidNeighbour(cells, x, y - 1)
        /\ cells[x][y].pressure # solve.start[x][y].pressure
        /\ cells[x - 1][y].pressure # solve.start[x - 1][y].pressure
        /\ cells[x][y - 1].pressure # solve.start[x][y - 1].pressure

\* on the faces that BoundaryConditionCell (x,y) of grid c shares with
\* FluidCells, f or g equals the velocity component stored on the face: the
\* face towards the right or the top is stored in the cell itself, the face
\* towards the left or the bottom in the FluidCell there
FacesSynchronised(c, x, y) ==
    /\ FluidNeighbour(c, x + 1, y) => c[x][y].f = c[x][y].velocity[1]
    /\ FluidNeighbour(c, x - 1, y) => c[x - 1][y].f = c[x - 1][y].velocity[1]
    /\ FluidNeighbour(c, x, y + 1) => c[x][y].g = c[x][y].velocity[2]
    /\ FluidNeighbour(c, x, y - 1) => c[x][y - 1].g = c[x][y - 1].velocity[2]

AllFacesSynchronised(c) ==
    \A x \in Xs, y \in Ys :
        IsBoundary(c[x][y].cell_type) => FacesSynchronised(c, x, y)

(* C19: after boundary resolution the predictor value is synchronised with  *)
(* the velocity on every wall face: for every face shared by a              *)
(* BoundaryConditionCell and a FluidCell, the f (vertical face) or g        *)
(* (horizontal face) stored on that face equals the velocity component      *)
(* stored on that face, for every boundary kind and for boundary cells with *)
(* any number of fluid neighbours.  Stated of both forms of the resolution: *)
(* set_boundary_conditions called on the grid, and the two passes of a      *)
(* timestep.                                                                *)
C19_FacesSynchronisedAfterResolution ==
    (probe.op = "resolve" \/ pc = "update_fg") => AllFacesSynchronised(cells)

\* both velocity components of cell (x,y) of grid c equal those of each
\* FluidCell next to it
CopiesEveryFluidNeighbour(c, x, y) ==
    \A n \in FluidNeighbours(c, x, y) : c[x][y].velocity = c[n[1]][n[2]].velocity

(* C20: after boundary velocity resolution, for every Outflow boundary cell *)
(* and every FluidCell adjacent to it on any of the four sides, both        *)
(* velocity components (u and v) of the Outflow cell equal the              *)
(* corresponding components of that adjacent fluid cell.                    *)
C20_OutflowCopiesFluid ==
    pc = "update_boundary_pressures_and_fg" =>
        \A x \in Xs, y \in Ys :
            cells[x][y].cell_type = "OutFlowCell" => CopiesEveryFluidNeighbour(cells, x, y)

\* the boundary velocities have been resolved at least once
VelocitiesResolved == steps > 0 \/ Len(phases) >= 1 \/ probe.op = "resolve"

\* the faces Inflow cell (x,y) shares with a FluidCell on its left and below
\* are stored in that FluidCell and carry the Inflow cell's own component
InflowFacesSet(c, x, y) ==
    /\ FluidNeighbour(c, x - 1, y) => c[x - 1][y].velocity[1] = c[x][y].velocity[1]
    /\ FluidNeighbour(c, x, y - 1) => c[x][y - 1].velocity[2] = c[x][y].velocity[2]

(* C21: an Inflow boundary cell keeps its own velocity: no phase of any     *)
(* timestep (and no direct call of the resolver) changes the velocity of an *)
(* Inflow cell, which is always the one it was built with, and once the     *)
(* boundary velocities have been resolved the velocity component on every   *)
(* face shared by an Inflow cell and a FluidCell equals the Inflow cell's   *)
(* own component for that axis: the faces towards the right and the top are *)
(* the Inflow cell's own, those towards a FluidCell on the left or below    *)
(* are overwritten with it in the FluidCell.                                *)
C21_InflowKeepsVelocity ==
    \A x \in Xs, y \in Ys :
        cells[x][y].cell_type = "InflowCell" =>
            /\ cells[x][y].velocity = preset[x][y].velocity
            /\ VelocitiesResolved => InflowFacesSet(cells, x, y)

\* a returned call: an Inflow cell with a non-zero u, left of it a FluidCell
\* that was built with another u and now carries the Inflow cell's
C21_Witness ==
    /\ pc = "returned"
    /\ steps > 0
    /\ \E x \in Xs, y \in Ys :
        /\ cells[x][y].cell_type = "InflowCell"
        /\ cells[x][y].velocity[1] # 0
        /\ cells[x][y].velocity # cells[x][y].boundary_condition_velocity
        /\ FluidNeighbour(cells, x - 1, y)
        /\ preset[x - 1][y].velocity[1] # cells[x][y].velocity[1]
        /\ cells[x - 1][y].velocity[1] = cells[x][y].velocity[1]

\* cell (x,y) of grid c is in the grid and no BoundaryConditionCell
OpenNeighbour(c, x, y) ==
    InGrid(params.space_size, x, y) /\ ~IsBoundary(c[x][y].cell_type)

\* the corrector assigns u (v) of cell (x,y) of grid c
WritesU(c, x, y) == FluidAt(c, x, y) /\ OpenNeighbour(c, x + 1, y)
WritesV(c, x, y) == FluidAt(c, x, y) /\ OpenNeighbour(c, x, y + 1)

(* C22: the velocity corrector writes u of a cell only when the cell is a   *)
(* FluidCell with an in-grid right neighbour that is not a                  *)
(* BoundaryConditionCell, setting u = f - dt (p[x+1][y] - p[x][y])/dx, and  *)
(* v only when its in-grid top neighbour is not a BoundaryConditionCell,    *)
(* setting v = g - dt (p[x][y+1] - p[x][y])/dy, with the pressure field the *)
(* Poisson solve just left; wall-face velocities set by the boundary        *)
(* resolver, all non-fluid cells, every pressure, f, g, rhs and psi and     *)
(* every field of the Simulation are left unchanged.                        *)
C22_CorrectorFrame ==
    [][pc = "update_velocity" =>
          /\ \A x \in Xs, y \in Ys :
                /\ cells'[x][y] = [cells[x][y] EXCEPT !.velocity = cells'[x][y].velocity]
                /\ cells'[x][y].velocity[1] =
                      IF WritesU(cells, x, y)
                      THEN cells[x][y].f
                           - Div(Mul(params.delta_time,
                                     cells[x + 1][y].pressure - cells[x][y].pressure),
                                 params.delta_space[1])
                      ELSE cells[x][y].velocity[1]
                /\ cells'[x][y].velocity[2] =
                      IF WritesV(cells, x, y)
                      THEN cells[x][y].g
                           - Div(Mul(params.delta_time,
                                     cells[x][y + 1].pressure - cells[x][y].pressure),
                                 params.delta_space[2])
                      ELSE cells[x][y].velocity[2]
          /\ Scalars' = Scalars]_vars

\* after a correction that moved u of a FluidCell away from its f, by the
\* pressure difference of a solve that ran sweeps, and left u of a FluidCell
\* with a wall on its right at the non-zero f the resolver had set
C22_Witness ==
    /\ pc = "update_psi"
    /\ solve.sweeps > 0
    /\ \E x \in Xs, y \in Ys :
        /\ WritesU(cells, x, y) /\ WritesV(cells, x, y)
        /\ cells[x][y].velocity[1] # cells[x][y].f
        /\ cells[x][y].velocity[2] # cells[x][y].g
        /\ cells[x + 1][y].pressure # cells[x][y].pressure
        /\ cells[x][y].pressure # solve.start[x][y].pressure
    /\ \E x \in Xs, y \in Ys :
        /\ FluidAt(cells, x, y)
        /\ ~OpenNeighbour(cells, x + 1, y)
        /\ cells[x + 1][y].pressure # cells[x][y].pressure
        /\ cells[x][y].velocity[1] = cells[x][y].f
        /\ cells[x][y].velocity[1] # 0

\* no FluidCell of grid c lies on the grid edge
GridConsistent(c) == ~EdgeFluid(c)

\* every index the phases of a timestep would read on the grid as it is lies
\* inside the grid, and the stencils the predictor calls are on FluidCells
AllReadsInGrid ==
    /\ \A x \in Xs, y \in Ys, dir \in {"left", "bottom"} :
          ~OutFlowReadsOutside(cells, params.space_size, x, y, dir)
    /\ \A x \in Xs, y \in Ys :
          FluidAt(cells, x, y) =>
            /\ \A name \in StencilNames :
                  ~StencilPanics(name, cells, params.space_size, x, y)
            /\ ~FgCellAborts(cells, params, x, y)
            /\ ~RhsCellAborts(cells, params, x, y)
    /\ ~ResidualAborts(cells, params)

(* C23: on a grid-consistent layout, one where no FluidCell lies on the     *)
(* grid edge, iterate_one_timestep never aborts, whatever the arrangement   *)
(* of Fluid, Void and boundary cells of any kind: every index read by the   *)
(* boundary resolver (the Outflow reads two cells inward included), by the  *)
(* stencils (the diagonal reads at (x-1,y+1) and (x+1,y-1) included), by    *)
(* RHS assembly, the Poisson solver and the corrector is inside the grid,   *)
(* and no stencil is invoked on a cell that is not a FluidCell.             *)
C23_ConsistentNeverAborts ==
    GridConsistent(cells) =>
        /\ pc # "aborted"
        /\ probe.op # "resolve_aborted"
        /\ solve.exit # "aborted"
        /\ AllReadsInGrid

\* two calls have returned on a grid with an OutFlow cell in the third column
\* that has FluidCells on its left and below (it read the edge column), and
\* with a FluidCell whose g was predicted with a diagonal read of a cell that
\* is no FluidCell
C23_Witness ==
    /\ pc = "returned"
    /\ steps >= 2
    /\ GridConsistent(cells)
    /\ \E y \in Ys :
        /\ cells[2][y].cell_type = "OutFlowCell"
        /\ FluidNeighbour(cells, 1, y)
        /\ FluidNeighbour(cells, 2, y - 1)
    /\ \E x \in Xs, y \in Ys :
        /\ WritesG(cells, x, y)
        /\ ~FluidAt(cells, x - 1, y + 1)
        /\ cells[x][y].g # preset[x][y].g

\* a call of iterate_one_timestep has returned
Returned == pc = "returned" /\ steps > 0

\* the pressure of every BoundaryConditionCell of the grid is the mean of the
\* pressures its adjacent FluidCells have in grid c
BoundaryPressuresAreMeansOf(c) ==
    \A x \in Xs, y \in Ys :
        IsBoundary(cells[x][y].cell_type) =>
            cells[x][y].pressure = MeanFluidPressure(c, x, y)

(* C24 as stated: when iterate_one_timestep returns, the pressure of every  *)
(* BoundaryConditionCell equals the arithmetic mean of the pressures its    *)
(* adjacent FluidCells have at that moment (0 if it has none), whether the  *)
(* Poisson solve ran zero, some, or all 100 sweeps.                         *)
C24_BoundaryPressureIsCurrentMean ==
    Returned => BoundaryPressuresAreMeansOf(cells)

\* what the code leaves instead: every BoundaryConditionCell holds the mean
\* its adjacent FluidCells had when the boundary pressures were last
\* refreshed, which is the current mean only if the solve ran no sweep
BoundaryPressureIsRefreshedMean ==
    Returned =>
        /\ BoundaryPressuresAreMeansOf(solve.refreshed)
        /\ solve.sweeps = 0 => BoundaryPressuresAreMeansOf(cells)

\* grid c with every f and g replaced by v
Refilled(c, v) ==
    [x \in Xs |-> [y \in Ys |-> [c[x][y] EXCEPT !.f = v, !.g = v]]]

\* the statements of iterate_one_timestep that assign f and g (the boundary
\* resolver and the momentum predictor), run on grid c with every f and g
\* replaced by v
FgAfter(c, pr, v) ==
    Bind(BoundaryRun(Refilled(c, v), pr.space_size, 0, TRUE, FALSE),
         LAMBDA bv :
            IF bv.aborted THEN bv
            ELSE FgRun(UpdateBoundaryPressuresAndFg(bv.cells, pr.space_size), pr, 0))

\* every f (g) the corrector reads on grid c is the same in the runs r0 and
\* r1, which started from different f and g: it does not depend on what f
\* and g held when the timestep started, so it was written in the timestep
ReadsOnlyWritten(c, r0, r1) ==
    \A x \in Xs, y \in Ys :
        /\ WritesU(c, x, y) => r0[x][y].f = r1[x][y].f
        /\ WritesV(c, x, y) => r0[x][y].g = r1[x][y].g

(* C25: in every timestep and for every cell-type layout (a FluidCell whose *)
(* right or top neighbour is a VoidCell included), each velocity component  *)
(* written by the velocity corrector is computed from an f or g value that  *)
(* was written earlier in the same timestep, by the momentum predictor or   *)
(* by the boundary resolver; the corrector never consumes a predictor value *)
(* left over from an earlier timestep or from construction.                 *)
C25_CorrectorReadsFreshFg ==
    pc = FirstPc =>
        \E r0 \in {FgAfter(cells, params, 0)}, r1 \in {FgAfter(cells, params, SCALE)} :
            ~r0.aborted => ReadsOnlyWritten(cells, r0.cells, r1.cells)

\* every FluidCell pressure of grid c is 0
AllFluidPressuresZero(c) ==
    \A x \in Xs, y \in Ys : FluidAt(c, x, y) => c[x][y].pressure = 0

\* the run is one whose FluidCell pressures are all 0 when the first Poisson
\* solve starts: no statement before the first solve writes a FluidCell
\* pressure, so these are the pressures of construction
ZeroStart == AllFluidPressuresZero(preset)

\* the first Poisson solve is about to start
FirstSolveStarts == pc = "solve_poisson_pressure_equation" /\ initial_pressure_norm = <<>>

\* the last convergence check of the running (or last) solve met the relative test
RelativeTestMet ==
    /\ solve.checks > 0
    /\ Less(solve.residual_norm, RelativeBound(initial_pressure_norm[1]))

\* the running (or last) solve stopped only on r < POISSON_EPSILON or after
\* ITR_MAX sweeps, and never met the relative test
StopsOnAbsoluteTestOnly ==
    /\ ~RelativeTestMet
    /\ solve.exit = "break" => Less(solve.residual_norm, POISSON_EPSILON)
    /\ solve.exit = "exhausted" => solve.sweeps = ITR_MAX

(* C26 as stated: if every FluidCell pressure is 0 when the first Poisson   *)
(* solve starts, the cached initial_pressure_norm is 0 for the rest of the  *)
(* run, so in every solve of every later timestep the relative test         *)
(* r < eps * initial_pressure_norm is never satisfied and the solve stops   *)
(* only when r < eps or after ITR_MAX sweeps.                               *)
C26_ZeroNormDisablesRelativeTest ==
    /\ FirstSolveStarts => (AllFluidPressuresZero(cells) <=> ZeroStart)
    /\ (ZeroStart /\ initial_pressure_norm # <<>>) =>
          /\ initial_pressure_norm = <<0>>
          /\ StopsOnAbsoluteTestOnly

(* C26, amended: if every FluidCell pressure is 0 when the first Poisson    *)
(* solve starts, the cached initial_pressure_norm is, for the rest of the   *)
(* run, 0 when the grid has a FluidCell and NaN (0/0) when it has none; in  *)
(* both cases the relative test r < eps * initial_pressure_norm is never    *)
(* satisfied in any solve of any timestep, and the solve stops only when    *)
(* r < eps or after ITR_MAX sweeps (with no FluidCell r is NaN as well and  *)
(* every solve runs all ITR_MAX sweeps).                                    *)
C26_ZeroOrNaNNormDisablesRelativeTest ==
    /\ FirstSolveStarts => (AllFluidPressuresZero(cells) <=> ZeroStart)
    /\ (ZeroStart /\ initial_pressure_norm # <<>>) =>
          /\ initial_pressure_norm =
                <<IF CountFluid(cells, params.space_size, 0) > 0 THEN 0 ELSE NaN>>
          /\ StopsOnAbsoluteTestOnly
          /\ (CountFluid(cells, params.space_size, 0) = 0 /\ solve.exit # "none")
                => solve.exit = "exhausted"

\* the solve of the second timestep of a run that started with every
\* FluidCell pressure 0 has stopped on r < eps after some sweeps, on a
\* pressure field that was no longer 0 when it started, with the norm still 0
C26_Witness ==
    /\ ZeroStart
    /\ steps = 1
    /\ pc = "update_velocity"
    /\ initial_pressure_norm = <<0>>
    /\ solve.exit = "break"
    /\ solve.sweeps > 0
    /\ ~AllFluidPressuresZero(solve.start)
    /\ Less(solve.residual_norm, POISSON_EPSILON)

============================================================================
